---- MODULE Spec2Model ----
(***************************************************************************)
(* A model of ua-parser (uap-python): the domain-gated partial results,    *)
(* the matchers and the linear resolver, the three caches (Lru, S3Fifo,    *)
(* Sieve) and the CachingResolver that composes a cache with a resolver.   *)
(*                                                                         *)
(* Python values are modelled as follows.                                  *)
(*   str            a sequence of one-character strings                   *)
(*   Optional[T]    None is << >>, a value x is <<x>>                      *)
(*   Domain (Flag)  a subset of {"USER_AGENT", "OS", "DEVICE"}             *)
(*   an object      an id into a heap (a function id -> record); two       *)
(*                  references are the same object iff the ids are equal   *)
(*   an exception   the operator's result carries raised = the class name  *)
(*                  ("" when nothing was raised) and the state it left     *)
(***************************************************************************)
EXTENDS Integers, Sequences, FiniteSets, TLC

(***************************************************************************)
(* Bounds of the model.                                                    *)
(***************************************************************************)
\* caches are built with maxsize in 0..MaxSize
MaxSize == 2
\* the user-agent strings used as inputs are the first NumUA of UAList
NumUA == 2
\* threads calling a shared CachingResolver
NumThreads == 2
\* the Sieve of SpecSieve holds SieveSize entries
SieveSize == 3
\* the puts that the threads of SpecRace begin
MaxPuts == 4

(***************************************************************************)
(* Optional values and strings.                                            *)
(***************************************************************************)
None == << >>

Some(x) == <<x>>

\* truthiness of an Optional[str]: None and "" are falsy
StrTruthy(s) == s # None /\ s[1] # << >>

\* `a or b` on Optional[str]
StrOr(a, b) == IF StrTruthy(a) THEN a ELSE b

\* `a or b` on an Optional of a dataclass instance (instances are always truthy)
ObjOr(a, b) == IF a # None THEN a ELSE b

Whitespace == {" "}

Digits == <<"0", "1", "2", "3", "4", "5", "6", "7", "8", "9">>

IsDigit(ch) == \E i \in 1..Len(Digits) : Digits[i] = ch

DigitValue(ch) == (CHOOSE i \in 1..Len(Digits) : Digits[i] = ch) - 1

RECURSIVE lstrip(_)
lstrip(s) == IF s # << >> /\ Head(s) \in Whitespace THEN lstrip(Tail(s)) ELSE s

RECURSIVE rstrip(_)
rstrip(s) ==
    IF s # << >> /\ s[Len(s)] \in Whitespace
    THEN rstrip(SubSeq(s, 1, Len(s) - 1))
    ELSE s

\* str.strip()
strip(s) == rstrip(lstrip(s))

\* `needle in s` for strings
Contains(s, needle) ==
    \E i \in 1..(Len(s) - Len(needle) + 1) :
        SubSeq(s, i, i + Len(needle) - 1) = needle

\* str.replace(old, new), old non-empty, scanning left to right
RECURSIVE str_replace(_, _, _)
str_replace(s, old, new) ==
    IF Len(s) < Len(old) THEN s
    ELSE IF SubSeq(s, 1, Len(old)) = old
         THEN new \o str_replace(SubSeq(s, Len(old) + 1, Len(s)), old, new)
         ELSE <<Head(s)>> \o str_replace(Tail(s), old, new)

(***************************************************************************)
(* Regular expressions.  The engine is opaque: a pattern is modelled by    *)
(* the literal it searches for and by the capture groups a match yields    *)
(* (each an Optional[str]: a group that did not participate is None).      *)
(***************************************************************************)
Regex(needle, groups) == [needle |-> needle, groups |-> groups, rep |-> None]

\* the pattern `needle.{lo,hi}then`: needle, then lo to hi characters, then
\* the literal `then`; hi = Unbounded stands for `.*` (lo = 0) and `.+` (lo = 1)
Unbounded == -1

RegexRep(needle, lo, hi, then, groups) ==
    [needle |-> needle, groups |-> groups,
     rep |-> Some([lo |-> lo, hi |-> hi, then |-> then])]

\* s[i..] starts with lit
StartsAt(s, i, lit) == i + Len(lit) - 1 <= Len(s) /\ SubSeq(s, i, i + Len(lit) - 1) = lit

\* the engine finds the pattern somewhere in ua
Found(pattern, ua) ==
    IF pattern.rep = None THEN Contains(ua, pattern.needle)
    ELSE LET rep == pattern.rep[1] IN
         \E i \in 1..(Len(ua) + 1) :
            /\ StartsAt(ua, i, pattern.needle)
            /\ \E k \in rep.lo..Len(ua) :
                  /\ rep.hi = Unbounded \/ k <= rep.hi
                  /\ StartsAt(ua, i + Len(pattern.needle) + k, rep.then)

\* Pattern.search(ua): None, or the match (its groups 1..re.groups)
search(pattern, ua) ==
    IF Found(pattern, ua) THEN Some(pattern.groups) ELSE None

\* REPETITION_PATTERN: the upper bound of a simplified repetition has three
\* digits or more
MinSimplified == 100

\* utils.fa_simplifier(pattern): a repetition {0,n} or {1,n} with n of three
\* digits or more becomes * or +
fa_simplifier(pattern) ==
    IF pattern.rep # None /\ pattern.rep[1].lo \in {0, 1}
       /\ pattern.rep[1].hi >= MinSimplified
    THEN [pattern EXCEPT !.rep = Some([pattern.rep[1] EXCEPT !.hi = Unbounded])]
    ELSE pattern

\* utils.get(m, idx)
get(m, idx) ==
    IF 0 < idx /\ idx <= Len(m)
    THEN (IF StrTruthy(m[idx]) THEN m[idx] ELSE None)
    ELSE None

\* re.sub(r"\$(\d)", lambda n: get(m, int(n[1])) or "", repl)
RECURSIVE re_sub(_, _)
re_sub(repl, m) ==
    IF repl = << >> THEN << >>
    ELSE IF Head(repl) = "$" /\ Len(repl) >= 2 /\ IsDigit(repl[2])
         THEN LET g == get(m, DigitValue(repl[2]))
              IN (IF g # None THEN g[1] ELSE << >>)
                     \o re_sub(SubSeq(repl, 3, Len(repl)), m)
         ELSE <<Head(repl)>> \o re_sub(Tail(repl), m)

\* replacer without the .strip()
replacerUnstripped(repl, m) ==
    IF repl = << >> THEN None
    ELSE LET s == re_sub(repl, m)
         IN IF s = << >> THEN None ELSE Some(s)

\* utils.replacer(repl, m): repl is a str
replacer(repl, m) ==
    IF repl = << >> THEN None
    ELSE LET s == strip(re_sub(repl, m))
         IN IF s = << >> THEN None ELSE Some(s)

(***************************************************************************)
(* Matchers.  A call yields [raised, v]: raised is "" and v the            *)
(* Optional record, or raised names the exception.                         *)
(***************************************************************************)
Ok(v) == [raised |-> "", v |-> v]

Raise(exc) == [raised |-> exc, v |-> None]

\* `template or default` in the constructors: template is an Optional[str]
OrDefault(template, default) == IF StrTruthy(template) THEN template[1] ELSE default

UserAgentMatcher(regex, family, major, minor, patch, patch_minor) ==
    [kind |-> "USER_AGENT", pattern |-> regex,
     family |-> OrDefault(family, <<"$", "1">>),
     major |-> major, minor |-> minor, patch |-> patch, patch_minor |-> patch_minor,
     brand |-> << >>, model |-> << >>]

OSMatcher(regex, family, major, minor, patch, patch_minor) ==
    [kind |-> "OS", pattern |-> regex,
     family |-> OrDefault(family, <<"$", "1">>),
     major |-> Some(OrDefault(major, <<"$", "2">>)),
     minor |-> Some(OrDefault(minor, <<"$", "3">>)),
     patch |-> Some(OrDefault(patch, <<"$", "4">>)),
     patch_minor |-> Some(OrDefault(patch_minor, <<"$", "5">>)),
     brand |-> << >>, model |-> << >>]

DeviceMatcher(regex, family, brand, model) ==
    [kind |-> "DEVICE", pattern |-> regex,
     family |-> OrDefault(family, <<"$", "1">>),
     major |-> None, minor |-> None, patch |-> None, patch_minor |-> None,
     brand |-> OrDefault(brand, << >>),
     model |-> OrDefault(model, <<"$", "1">>)]

UserAgentMatcher_call(self, ua) ==
    LET mm == search(self.pattern, ua) IN
    IF mm = None THEN Ok(None)
    ELSE LET m == mm[1] IN
         IF Contains(self.family, <<"$", "1">>) /\ Len(m) < 1
         THEN Raise("IndexError")
         ELSE IF Contains(self.family, <<"$", "1">>) /\ m[1] = None
         THEN Raise("TypeError")
         ELSE Ok(Some([family |-> IF Contains(self.family, <<"$", "1">>)
                                    THEN str_replace(self.family, <<"$", "1">>, m[1][1])
                                    ELSE self.family,
                       major |-> StrOr(self.major, get(m, 2)),
                       minor |-> StrOr(self.minor, get(m, 3)),
                       patch |-> StrOr(self.patch, get(m, 4)),
                       patch_minor |-> StrOr(self.patch_minor, get(m, 5))]))

OSMatcher_call(self, ua) ==
    LET mm == search(self.pattern, ua) IN
    IF mm = None THEN Ok(None)
    ELSE LET m == mm[1]
             family == replacer(self.family, m)
         IN IF family = None THEN Raise("ValueError")
            ELSE Ok(Some([family |-> family[1],
                          major |-> replacer(self.major[1], m),
                          minor |-> replacer(self.minor[1], m),
                          patch |-> replacer(self.patch[1], m),
                          patch_minor |-> replacer(self.patch_minor[1], m)]))

DeviceMatcher_call(self, ua) ==
    LET mm == search(self.pattern, ua) IN
    IF mm = None THEN Ok(None)
    ELSE LET m == mm[1]
             family == replacer(self.family, m)
         IN IF family = None THEN Raise("ValueError")
            ELSE Ok(Some([family |-> family[1],
                          brand |-> replacer(self.brand, m),
                          model |-> replacer(self.model, m)]))

\* matcher(ua), whatever the matcher's class
Matcher_call(self, ua) ==
    CASE self.kind = "USER_AGENT" -> UserAgentMatcher_call(self, ua)
      [] self.kind = "OS" -> OSMatcher_call(self, ua)
      [] self.kind = "DEVICE" -> DeviceMatcher_call(self, ua)

(***************************************************************************)
(* Domains and partial results.                                            *)
(***************************************************************************)
USER_AGENT == "USER_AGENT"

OS == "OS"

DEVICE == "DEVICE"

ALL == {USER_AGENT, OS, DEVICE}

Domain == SUBSET ALL

PartialResult(domains, user_agent, os, device, string) ==
    [domains |-> domains, user_agent |-> user_agent, os |-> os,
     device |-> device, string |-> string]

ParseResult(user_agent, os, device, string) ==
    [user_agent |-> user_agent, os |-> os, device |-> device, string |-> string]

\* complete without `if self.domains != Domain.ALL: raise ValueError`
completeUnchecked(self) ==
    Ok(Some(ParseResult(self.user_agent, self.os, self.device, self.string)))

\* PartialParseResult.complete()
complete(self) ==
    IF self.domains # ALL THEN Raise("ValueError")
    ELSE Ok(Some(ParseResult(self.user_agent, self.os, self.device, self.string)))

\* the field of a partial result that holds domain d
Field(r, d) ==
    CASE d = USER_AGENT -> r.user_agent
      [] d = OS -> r.os
      [] d = DEVICE -> r.device

(***************************************************************************)
(* The linear resolver.                                                    *)
(***************************************************************************)
\* first_match taking the last matcher that yields a value, not the first
RECURSIVE first_matchTakesLast(_, _)
first_matchTakesLast(matchers, ua) ==
    IF matchers = << >> THEN Ok(None)
    ELSE LET rest == first_matchTakesLast(Tail(matchers), ua) IN
         IF rest.raised # "" \/ rest.v # None THEN rest
         ELSE Matcher_call(Head(matchers), ua)

\* next(filter(None, map(parse, matchers)), None): the first matcher, in list
\* order, whose call yields a value; a matcher that raises ends the search
RECURSIVE first_match(_, _)
first_match(matchers, ua) ==
    IF matchers = << >> THEN Ok(None)
    ELSE LET r == Matcher_call(Head(matchers), ua) IN
         IF r.raised # "" THEN r
         ELSE IF r.v # None THEN r
         ELSE first_match(Tail(matchers), ua)

\* basic.Resolver.__call__(ua, domains): [raised, r]
Resolver_call(self, ua, domains) ==
    LET user_agent == IF USER_AGENT \in domains
                      THEN first_match(self.user_agent_matchers, ua) ELSE Ok(None)
        os == IF OS \in domains
              THEN first_match(self.os_matchers, ua) ELSE Ok(None)
        device == IF DEVICE \in domains
                  THEN first_match(self.device_matchers, ua) ELSE Ok(None)
    IN IF user_agent.raised # "" THEN [raised |-> user_agent.raised, r |-> None]
       ELSE IF os.raised # "" THEN [raised |-> os.raised, r |-> None]
       ELSE IF device.raised # "" THEN [raised |-> device.raised, r |-> None]
       ELSE [raised |-> "",
             r |-> Some(PartialResult(domains, user_agent.v, os.v, device.v, ua))]

(***************************************************************************)
(* The prefiltered (re2) resolver.                                         *)
(***************************************************************************)
\* min(matches), matches a non-empty list of integers
RECURSIVE min(_)
min(matches) ==
    IF Len(matches) = 1 THEN matches[1]
    ELSE LET rest == min(Tail(matches)) IN
         IF Head(matches) < rest THEN Head(matches) ELSE rest

\* the filter built by re2.Resolver.__init__ over the matchers of one domain,
\* then Filter.Match(ua): the indices of the patterns added (each the
\* fa_simplifier of the matcher's regex) that the set engine finds in ua, as
\* a list in the order the engine reports them; `order` ranks all indices
Filter_Match(matchers, ua, order) ==
    SelectSeq(order, LAMBDA i : i <= Len(matchers)
                                /\ Found(fa_simplifier(matchers[i].pattern), ua))

\* `if matches := self.ua.Match(ua): user_agent = matchers[min(matches)](ua)`
Prefiltered(matchers, ua, order) ==
    LET matches == Filter_Match(matchers, ua, order) IN
    IF matches # << >> THEN Matcher_call(matchers[min(matches)], ua) ELSE Ok(None)

\* re2.Resolver.__call__(ua, domains): [raised, r]
Re2Resolver_call(self, ua, domains, order) ==
    LET user_agent == IF USER_AGENT \in domains
                      THEN Prefiltered(self.user_agent_matchers, ua, order)
                      ELSE Ok(None)
        os == IF OS \in domains
              THEN Prefiltered(self.os_matchers, ua, order) ELSE Ok(None)
        device == IF DEVICE \in domains
                  THEN Prefiltered(self.device_matchers, ua, order) ELSE Ok(None)
    IN IF user_agent.raised # "" THEN [raised |-> user_agent.raised, r |-> None]
       ELSE IF os.raised # "" THEN [raised |-> os.raised, r |-> None]
       ELSE IF device.raised # "" THEN [raised |-> device.raised, r |-> None]
       ELSE [raised |-> "",
             r |-> Some(PartialResult(domains, user_agent.v, os.v, device.v, ua))]

(***************************************************************************)
(* Dictionaries are functions whose domain is the set of keys present.     *)
(***************************************************************************)
EmptyDict == [x \in {} |-> 0]

DictSet(d, k, v) == [x \in (DOMAIN d) \cup {k} |-> IF x = k THEN v ELSE d[x]]

DictDel(d, k) == [x \in (DOMAIN d) \ {k} |-> d[x]]

\* a deque is a sequence, leftmost element first
appendleft(q, x) == <<x>> \o q

\* the deque after pop(), which removed q[Len(q)]
popped(q) == SubSeq(q, 1, Len(q) - 1)

\* a null reference
Null == 0

\* the id of a newly allocated object
NewId(heap) == CHOOSE i \in 1..(Cardinality(DOMAIN heap) + 1) : i \notin DOMAIN heap

Max(a, b) == IF a >= b THEN a ELSE b

Min(a, b) == IF a <= b THEN a ELSE b

\* what a cache operation yields: the cache as it leaves it, the exception it
\* raised ("" if none) and the value it returns
Outcome(self, raised, ret) == [self |-> self, raised |-> raised, ret |-> ret]

(***************************************************************************)
(* Lru: an OrderedDict, least recently used first.                         *)
(***************************************************************************)
Lru(maxsize) == [kind |-> "Lru", maxsize |-> maxsize, cache |-> << >>]

OdKeys(od) == {od[i].key : i \in 1..Len(od)}

OdIndex(od, key) == CHOOSE i \in 1..Len(od) : od[i].key = key

OdRemove(od, i) == SubSeq(od, 1, i - 1) \o SubSeq(od, i + 1, Len(od))

\* Lru_getitem without `self.cache.move_to_end(key)`: a hit leaves the order
Lru_getitemNoMove(self, key) ==
    IF key \in OdKeys(self.cache)
    THEN Outcome(self, "", Some(self.cache[OdIndex(self.cache, key)].value))
    ELSE Outcome(self, "", None)

\* Lru_getitem with `self.cache.pop(key)` for the lookup: a hit removes the entry
Lru_getitemPops(self, key) ==
    IF key \in OdKeys(self.cache)
    THEN LET i == OdIndex(self.cache, key) IN
         Outcome([self EXCEPT !.cache = OdRemove(self.cache, i)],
                 "", Some(self.cache[i].value))
    ELSE Outcome(self, "", None)

Lru_getitem(self, key) ==
    IF key \in OdKeys(self.cache)
    THEN LET i == OdIndex(self.cache, key)
             e == self.cache[i]
         IN Outcome([self EXCEPT !.cache = Append(OdRemove(self.cache, i), e)],
                    "", Some(e.value))
    ELSE Outcome(self, "", None)

\* Lru_setitem without `self.cache.popitem(last=False)`: nothing is evicted
Lru_setitemNoEvict(self, key, value) ==
    Outcome([self EXCEPT !.cache =
                IF key \in OdKeys(self.cache)
                THEN [self.cache EXCEPT ![OdIndex(self.cache, key)].value = value]
                ELSE Append(self.cache, [key |-> key, value |-> value])],
            "", None)

\* Lru_setitem without `and key not in self.cache`: a full cache evicts also
\* when the key is present
Lru_setitemAlwaysEvicts(self, key, value) ==
    LET full == Len(self.cache) >= self.maxsize IN
    IF full /\ self.cache = << >>
    THEN Outcome(self, "KeyError", None)
    ELSE LET od == IF full THEN Tail(self.cache) ELSE self.cache
             od2 == IF key \in OdKeys(od)
                    THEN [od EXCEPT ![OdIndex(od, key)].value = value]
                    ELSE Append(od, [key |-> key, value |-> value])
         IN Outcome([self EXCEPT !.cache = od2], "", None)

Lru_setitem(self, key, value) ==
    LET full == Len(self.cache) >= self.maxsize /\ key \notin OdKeys(self.cache) IN
    IF full /\ self.cache = << >>
    THEN Outcome(self, "KeyError", None)
    ELSE LET od == IF full THEN Tail(self.cache) ELSE self.cache
             od2 == IF key \in OdKeys(od)
                    THEN [od EXCEPT ![OdIndex(od, key)].value = value]
                    ELSE Append(od, [key |-> key, value |-> value])
         IN Outcome([self EXCEPT !.cache = od2], "", None)

(***************************************************************************)
(* S3Fifo.  heap holds the CacheEntry objects; index maps a key to a live  *)
(* entry [t = "entry", ref = its id] or to a ghost marker [t = "ghost",    *)
(* ref = the key object]; small and main hold entry ids, ghost holds key   *)
(* objects [key, o].                                                       *)
(***************************************************************************)
S3Fifo(maxsize) ==
    LET small_target == Max(1, maxsize \div 10) IN
    [kind |-> "S3Fifo", maxsize |-> maxsize, index |-> EmptyDict,
     small_target |-> small_target, small |-> << >>,
     main_target |-> maxsize - small_target, main |-> << >>,
     ghost |-> << >>, heap |-> EmptyDict]

\* `(e := self.index.get(key)) and type(e) is CacheEntry`
S3IsLive(self, key) == key \in DOMAIN self.index /\ self.index[key].t = "entry"

\* `type(self.index.get(key)) is str`
S3IsGhost(self, key) == key \in DOMAIN self.index /\ self.index[key].t = "ghost"

\* __getitem__ with `e.freq + 1` in place of `min(e.freq + 1, 3)`
S3Fifo_getitemUncapped(self, key) ==
    IF S3IsLive(self, key)
    THEN LET id == self.index[key].ref IN
         Outcome([self EXCEPT !.heap[id].freq = self.heap[id].freq + 1],
                 "", Some(self.heap[id].value))
    ELSE Outcome(self, "", None)

S3Fifo_getitem(self, key) ==
    IF S3IsLive(self, key)
    THEN LET id == self.index[key].ref IN
         Outcome([self EXCEPT !.heap[id].freq = Min(self.heap[id].freq + 1, 3)],
                 "", Some(self.heap[id].value))
    ELSE Outcome(self, "", None)

\* _evict_main without the test of freq: the tail entry is dropped as it is
S3Fifo_evict_mainDropsTail(self) ==
    IF self.main = << >> THEN Outcome(self, "IndexError", None)
    ELSE LET e == self.main[Len(self.main)] IN
         Outcome([self EXCEPT !.main = popped(self.main),
                              !.index = DictDel(self.index, self.heap[e].key)],
                 "", None)

RECURSIVE S3Fifo_evict_main(_)
S3Fifo_evict_main(self) ==
    IF self.main = << >> THEN Outcome(self, "IndexError", None)
    ELSE LET e == self.main[Len(self.main)]
             rest == popped(self.main)
         IN IF self.heap[e].freq # 0
            THEN S3Fifo_evict_main(
                     [self EXCEPT !.heap[e].freq = self.heap[e].freq - 1,
                                  !.main = appendleft(rest, e)])
            ELSE IF self.heap[e].key \notin DOMAIN self.index
            THEN Outcome([self EXCEPT !.main = rest], "KeyError", None)
            ELSE Outcome([self EXCEPT !.main = rest,
                                      !.index = DictDel(self.index, self.heap[e].key)],
                         "", None)

\* the trimming of ghost without `if self.index.get(g) is g`: the index slot
\* of the key popped is deleted whatever it holds
RECURSIVE S3TrimGhostAlways(_)
S3TrimGhostAlways(self) ==
    IF Len(self.ghost) > self.main_target
    THEN LET g == self.ghost[Len(self.ghost)] IN
         IF Len(self.ghost) = 0 THEN Outcome(self, "IndexError", None)
         ELSE S3TrimGhostAlways([self EXCEPT !.ghost = popped(self.ghost),
                                             !.index = DictDel(self.index, g.key)])
    ELSE Outcome(self, "", None)

\* `while len(self.ghost) > self.main_target: ...`
RECURSIVE S3TrimGhost(_)
S3TrimGhost(self) ==
    IF Len(self.ghost) > self.main_target
    THEN LET g == self.ghost[Len(self.ghost)]
             same == S3IsGhost(self, g.key) /\ self.index[g.key].ref = g.o
         IN S3TrimGhost([self EXCEPT !.ghost = popped(self.ghost),
                                     !.index = IF same THEN DictDel(self.index, g.key)
                                               ELSE self.index])
    ELSE IF Len(self.ghost) = 0 /\ self.main_target < 0
    THEN Outcome(self, "IndexError", None)
    ELSE Outcome(self, "", None)

\* _evict_small without the test of freq: the tail entry is demoted as it is
S3Fifo_evict_smallDemotesTail(self) ==
    IF self.small = << >> THEN Outcome(self, "", None)
    ELSE LET e == self.small[Len(self.small)]
             g == [key |-> self.heap[e].key, o |-> self.heap[e].o]
         IN S3TrimGhost(
                [self EXCEPT !.small = popped(self.small),
                             !.index = DictSet(self.index, g.key,
                                               [t |-> "ghost", ref |-> g.o]),
                             !.ghost = appendleft(self.ghost, g)])

RECURSIVE S3Fifo_evict_small(_)
S3Fifo_evict_small(self) ==
    IF self.small = << >> THEN Outcome(self, "", None)
    ELSE LET e == self.small[Len(self.small)]
             rest == popped(self.small)
         IN IF self.heap[e].freq # 0
            THEN S3Fifo_evict_small(
                     [self EXCEPT !.heap[e].freq = 0,
                                  !.small = rest,
                                  !.main = appendleft(self.main, e)])
            ELSE LET g == [key |-> self.heap[e].key, o |-> self.heap[e].o] IN
                 S3TrimGhost(
                     [self EXCEPT !.small = rest,
                                  !.index = DictSet(self.index, g.key,
                                                    [t |-> "ghost", ref |-> g.o]),
                                  !.ghost = appendleft(self.ghost, g)])

\* S3MakeRoom without the second test of the capacity, made after _evict_small
S3MakeRoomOnce(self) ==
    IF Len(self.small) + Len(self.main) >= self.maxsize
    THEN IF Len(self.main) < self.main_target
         THEN S3Fifo_evict_small(self)
         ELSE S3Fifo_evict_main(self)
    ELSE Outcome(self, "", None)

\* the part of __setitem__ that makes room
S3MakeRoom(self) ==
    IF Len(self.small) + Len(self.main) >= self.maxsize
    THEN LET s1 == IF Len(self.main) < self.main_target
                   THEN S3Fifo_evict_small(self)
                   ELSE Outcome(self, "", None)
         IN IF s1.raised # "" THEN s1
            ELSE IF Len(s1.self.small) + Len(s1.self.main) >= self.maxsize
            THEN S3Fifo_evict_main(s1.self)
            ELSE s1
    ELSE Outcome(self, "", None)

\* S3Fifo_setitem without the test for a ghost: every new entry goes to small
S3Fifo_setitemToSmall(self, key, o, r) ==
    IF S3IsLive(self, key)
    THEN Outcome([self EXCEPT !.heap[self.index[key].ref].value = r], "", None)
    ELSE LET room == S3MakeRoom(self) IN
         IF room.raised # "" THEN room
         ELSE LET s == room.self
                  entry == NewId(s.heap)
                  obj == [key |-> key, o |-> o, value |-> r, freq |-> 0]
              IN Outcome(
                     [s EXCEPT !.heap = DictSet(s.heap, entry, obj),
                               !.small = appendleft(s.small, entry),
                               !.index = DictSet(s.index, key,
                                                 [t |-> "entry", ref |-> entry])],
                     "", None)

\* key is passed as the object [key, o]
\* __setitem__ without the overwrite of a live entry: every put inserts
S3Fifo_setitemAlwaysInserts(self, key, o, r) ==
    LET room == S3MakeRoom(self) IN
    IF room.raised # "" THEN room
    ELSE LET s == room.self
             entry == NewId(s.heap)
             obj == [key |-> key, o |-> o, value |-> r, freq |-> 0]
         IN Outcome(
                [s EXCEPT !.heap = DictSet(s.heap, entry, obj),
                          !.main = IF S3IsGhost(s, key)
                                   THEN appendleft(s.main, entry) ELSE s.main,
                          !.small = IF S3IsGhost(s, key)
                                    THEN s.small ELSE appendleft(s.small, entry),
                          !.index = DictSet(s.index, key,
                                            [t |-> "entry", ref |-> entry])],
                "", None)

S3Fifo_setitem(self, key, o, r) ==
    IF S3IsLive(self, key)
    THEN Outcome([self EXCEPT !.heap[self.index[key].ref].value = r], "", None)
    ELSE LET room == S3MakeRoom(self) IN
         IF room.raised # "" THEN room
         ELSE LET s == room.self
                  entry == NewId(s.heap)
                  obj == [key |-> key, o |-> o, value |-> r, freq |-> 0]
              IN Outcome(
                     [s EXCEPT !.heap = DictSet(s.heap, entry, obj),
                               !.main = IF S3IsGhost(s, key)
                                        THEN appendleft(s.main, entry) ELSE s.main,
                               !.small = IF S3IsGhost(s, key)
                                         THEN s.small ELSE appendleft(s.small, entry),
                               !.index = DictSet(s.index, key,
                                                 [t |-> "entry", ref |-> entry])],
                     "", None)

(***************************************************************************)
(* Sieve.  heap holds the SieveNode objects; cache maps a key to a node    *)
(* id; head, tail, hand, prev and a node's next are node ids or Null.      *)
(***************************************************************************)
Sieve(maxsize) ==
    [kind |-> "Sieve", maxsize |-> maxsize, cache |-> EmptyDict,
     head |-> Null, tail |-> Null, hand |-> Null, prev |-> Null,
     heap |-> EmptyDict]

Sieve_getitem(self, key) ==
    IF key \in DOMAIN self.cache
    THEN LET entry == self.cache[key] IN
         Outcome([self EXCEPT !.heap[entry].visited = TRUE],
                 "", Some(self.heap[entry].value))
    ELSE Outcome(self, "", None)

\* the loop of _evict without its body: the scan stops where it starts
SieveScanStopsAtOnce(self, obj, pobj) == [self |-> self, obj |-> obj, pobj |-> pobj]

\* the loop of _evict without the wrap from head to tail: past head there is
\* no node
RECURSIVE SieveScanNoWrap(_, _, _)
SieveScanNoWrap(self, obj, pobj) ==
    IF obj # Null /\ self.heap[obj].visited
    THEN LET s == [self EXCEPT !.heap[obj].visited = FALSE] IN
         SieveScanNoWrap(s, self.heap[obj].next, obj)
    ELSE [self |-> self, obj |-> obj, pobj |-> pobj]

\* the number of times `while obj and obj.visited` reads the flag of a node
RECURSIVE SieveScanExamined(_, _)
SieveScanExamined(self, obj) ==
    IF obj = Null THEN 0
    ELSE IF self.heap[obj].visited
    THEN 1 + SieveScanExamined([self EXCEPT !.heap[obj].visited = FALSE],
                               IF self.heap[obj].next # Null
                               THEN self.heap[obj].next ELSE self.tail)
    ELSE 1

\* `while obj and obj.visited: ...`: [self, obj, pobj] when the loop ends
RECURSIVE SieveScan(_, _, _)
SieveScan(self, obj, pobj) ==
    IF obj # Null /\ self.heap[obj].visited
    THEN LET s == [self EXCEPT !.heap[obj].visited = FALSE] IN
         IF self.heap[obj].next # Null
         THEN SieveScan(s, self.heap[obj].next, obj)
         ELSE SieveScan(s, self.tail, Null)
    ELSE [self |-> self, obj |-> obj, pobj |-> pobj]

\* _evict without `if self.hand`: every scan starts at tail
Sieve_evictFromTail(self) ==
    LET found == SieveScan(self, self.tail, Null)
        s == found.self
        obj == found.obj
        pobj == found.pobj
    IN IF obj = Null THEN Outcome(s, "", None)
       ELSE LET next == s.heap[obj].next
                s1 == [s EXCEPT !.hand = next, !.prev = pobj]
            IN IF s.heap[obj].key \notin DOMAIN s.cache
               THEN Outcome(s1, "KeyError", None)
               ELSE Outcome(
                        [s1 EXCEPT !.cache = DictDel(s.cache, s.heap[obj].key),
                                   !.head = IF next = Null THEN pobj ELSE s.head,
                                   !.heap = IF pobj # Null
                                            THEN [s.heap EXCEPT ![pobj].next = next]
                                            ELSE s.heap,
                                   !.tail = IF pobj # Null THEN s.tail ELSE next],
                        "", None)

\* _evict without `self.prev = pobj`: prev stays where the last scan left it
Sieve_evictKeepsPrev(self) ==
    LET found == IF self.hand # Null
                 THEN SieveScan(self, self.hand, self.prev)
                 ELSE SieveScan(self, self.tail, Null)
        s == found.self
        obj == found.obj
        pobj == found.pobj
    IN IF obj = Null THEN Outcome(s, "", None)
       ELSE LET next == s.heap[obj].next
                s1 == [s EXCEPT !.hand = next]
            IN IF s.heap[obj].key \notin DOMAIN s.cache
               THEN Outcome(s1, "KeyError", None)
               ELSE Outcome(
                        [s1 EXCEPT !.cache = DictDel(s.cache, s.heap[obj].key),
                                   !.head = IF next = Null THEN pobj ELSE s.head,
                                   !.heap = IF pobj # Null
                                            THEN [s.heap EXCEPT ![pobj].next = next]
                                            ELSE s.heap,
                                   !.tail = IF pobj # Null THEN s.tail ELSE next],
                        "", None)

Sieve_evict(self) ==
    LET found == IF self.hand # Null
                 THEN SieveScan(self, self.hand, self.prev)
                 ELSE SieveScan(self, self.tail, Null)
        s == found.self
        obj == found.obj
        pobj == found.pobj
    IN IF obj = Null THEN Outcome(s, "", None)
       ELSE LET next == s.heap[obj].next
                s1 == [s EXCEPT !.hand = next, !.prev = pobj]
            IN IF s.heap[obj].key \notin DOMAIN s.cache
               THEN Outcome(s1, "KeyError", None)
               ELSE Outcome(
                        [s1 EXCEPT !.cache = DictDel(s.cache, s.heap[obj].key),
                                   !.head = IF next = Null THEN pobj ELSE s.head,
                                   !.heap = IF pobj # Null
                                            THEN [s.heap EXCEPT ![pobj].next = next]
                                            ELSE s.heap,
                                   !.tail = IF pobj # Null THEN s.tail ELSE next],
                        "", None)

Sieve_setitem(self, key, value) ==
    IF key \in DOMAIN self.cache
    THEN Outcome([self EXCEPT !.heap[self.cache[key]].value = value], "", None)
    ELSE LET room == IF Cardinality(DOMAIN self.cache) >= self.maxsize
                     THEN Sieve_evict(self) ELSE Outcome(self, "", None)
         IN IF room.raised # "" THEN room
            ELSE LET s == room.self
                     node == NewId(s.heap)
                     obj == [key |-> key, value |-> value, visited |-> FALSE,
                             next |-> Null]
                     heap1 == DictSet(s.heap, node, obj)
                 IN Outcome(
                        [s EXCEPT !.cache = DictSet(s.cache, key, node),
                                  !.heap = IF s.head # Null
                                           THEN [heap1 EXCEPT ![s.head].next = node]
                                           ELSE heap1,
                                  !.head = node,
                                  !.tail = IF s.tail = Null THEN node ELSE s.tail],
                        "", None)

\* __getitem__ / __setitem__ of whichever cache self is
Cache_getitem(self, key) ==
    CASE self.kind = "Lru" -> Lru_getitem(self, key)
      [] self.kind = "S3Fifo" -> S3Fifo_getitem(self, key)
      [] self.kind = "Sieve" -> Sieve_getitem(self, key)

Cache_setitem(self, key, o, value) ==
    CASE self.kind = "Lru" -> Lru_setitem(self, key, value)
      [] self.kind = "S3Fifo" -> S3Fifo_setitem(self, key, o, value)
      [] self.kind = "Sieve" -> Sieve_setitem(self, key, value)

(***************************************************************************)
(* Garbage collection: an object lives as long as a reference reaches it.  *)
(* roots are the ids held outside the cache (by a thread inside a get).    *)
(* The objects that stay are renumbered in the order the cache lists them, *)
(* an id being nothing but the identity of an object.                      *)
(***************************************************************************)
RECURSIVE SieveReach(_, _)
SieveReach(heap, ids) ==
    LET more == {heap[i].next : i \in ids} \ {Null} IN
    IF more \subseteq ids THEN ids ELSE SieveReach(heap, ids \cup more)

Range(q) == {q[i] : i \in 1..Len(q)}

\* the ids reachable from the cache or from roots
Keep(self, roots) ==
    CASE self.kind = "Lru" -> {}
      [] self.kind = "S3Fifo" ->
            {self.index[k].ref : k \in {x \in DOMAIN self.index : self.index[x].t = "entry"}}
                \cup Range(self.small) \cup Range(self.main) \cup roots
      [] self.kind = "Sieve" ->
            SieveReach(self.heap,
                ({self.cache[k] : k \in DOMAIN self.cache}
                    \cup {self.head, self.tail, self.hand, self.prev}
                    \cup roots) \ {Null})

\* the nodes met following next from node, each once
RECURSIVE SieveList(_, _, _)
SieveList(heap, node, acc) ==
    IF node = Null \/ node \in Range(acc) THEN acc
    ELSE SieveList(heap, heap[node].next, Append(acc, node))

\* acc, then the ids of first that are in D, in order of first occurrence, then
\* the other ids of D in increasing order
RECURSIVE Ordered(_, _, _)
Ordered(first, D, acc) ==
    IF first # << >>
    THEN IF Head(first) \in D /\ Head(first) \notin Range(acc)
         THEN Ordered(Tail(first), D, Append(acc, Head(first)))
         ELSE Ordered(Tail(first), D, acc)
    ELSE IF D \subseteq Range(acc) THEN acc
    ELSE LET i == CHOOSE x \in D \ Range(acc) : \A y \in D \ Range(acc) : x <= y
         IN Ordered(first, D, Append(acc, i))

\* the ids that stay, in the order that numbers them
Order(self, roots) ==
    CASE self.kind = "Lru" -> << >>
      [] self.kind = "S3Fifo" ->
            Ordered(self.small \o self.main, Keep(self, roots), << >>)
      [] self.kind = "Sieve" ->
            Ordered(SieveList(self.heap, self.tail, << >>), Keep(self, roots), << >>)

\* the id that object id has after the collection
Renamed(self, roots, id) ==
    IF id = Null THEN Null
    ELSE LET order == Order(self, roots) IN
         CHOOSE p \in 1..Len(order) : order[p] = id

Collect(self, roots) ==
    LET order == Order(self, roots)
        ren == [i \in Range(order) |-> CHOOSE p \in 1..Len(order) : order[p] = i]
        to(i) == IF i = Null THEN Null ELSE ren[i]
    IN CASE self.kind = "Lru" -> self
         [] self.kind = "S3Fifo" ->
               [self EXCEPT
                   !.heap = [p \in 1..Len(order) |-> self.heap[order[p]]],
                   !.small = [i \in 1..Len(self.small) |-> ren[self.small[i]]],
                   !.main = [i \in 1..Len(self.main) |-> ren[self.main[i]]],
                   !.index = [k \in DOMAIN self.index |->
                                 IF self.index[k].t = "entry"
                                 THEN [t |-> "entry", ref |-> ren[self.index[k].ref]]
                                 ELSE self.index[k]]]
         [] self.kind = "Sieve" ->
               [self EXCEPT
                   !.heap = [p \in 1..Len(order) |->
                                [self.heap[order[p]] EXCEPT !.next = to(@)]],
                   !.cache = [k \in DOMAIN self.cache |-> ren[self.cache[k]]],
                   !.head = to(@), !.tail = to(@), !.hand = to(@), !.prev = to(@)]

(***************************************************************************)
(* What the cache holds, read without going through __getitem__.           *)
(***************************************************************************)
\* the keys of the live entries
LiveKeys(self) ==
    CASE self.kind = "Lru" -> OdKeys(self.cache)
      [] self.kind = "S3Fifo" ->
            {self.heap[self.small[i]].key : i \in 1..Len(self.small)}
                \cup {self.heap[self.main[i]].key : i \in 1..Len(self.main)}
      [] self.kind = "Sieve" -> DOMAIN self.cache

\* the number of entries held
Size(self) ==
    CASE self.kind = "Lru" -> Len(self.cache)
      [] self.kind = "S3Fifo" -> Len(self.small) + Len(self.main)
      [] self.kind = "Sieve" -> Cardinality(DOMAIN self.cache)

\* the value held for key, None if there is none
Held(self, key) ==
    CASE self.kind = "Lru" ->
            IF key \in OdKeys(self.cache)
            THEN Some(self.cache[OdIndex(self.cache, key)].value) ELSE None
      [] self.kind = "S3Fifo" ->
            IF S3IsLive(self, key)
            THEN Some(self.heap[self.index[key].ref].value) ELSE None
      [] self.kind = "Sieve" ->
            IF key \in DOMAIN self.cache
            THEN Some(self.heap[self.cache[key]].value) ELSE None

(***************************************************************************)
(* CachingResolver.                                                        *)
(***************************************************************************)
\* what a call leaves behind: the cache, the exception raised ("" if none), the
\* value returned, what the lookup found (entry), the domains the wrapped
\* resolver was asked for (asked, None if it was not called) and the value
\* passed to the cache's __setitem__ (wrote, None if it was not called)
CallOutcome(cache, raised, ret, entry, asked, wrote) ==
    [self |-> cache, raised |-> raised, ret |-> ret, entry |-> entry,
     asked |-> asked, wrote |-> wrote]

\* Merge with `domains=r.domains`: the domains of the cached entry are lost
MergeFreshDomains(ua, entry, r) ==
    PartialResult(r.domains,
                  ObjOr(entry.user_agent, r.user_agent),
                  ObjOr(entry.os, r.os),
                  ObjOr(entry.device, r.device),
                  ua)

\* Merge with `user_agent=r.user_agent`, ...: the fields of the cached entry
\* are lost
MergeFreshFields(ua, entry, r) ==
    PartialResult(entry.domains \cup r.domains, r.user_agent, r.os, r.device, ua)

\* Merge with `domains=Domain.ALL`: domains nobody resolved are marked resolved
MergeAllDomains(ua, entry, r) ==
    PartialResult(ALL,
                  ObjOr(entry.user_agent, r.user_agent),
                  ObjOr(entry.os, r.os),
                  ObjOr(entry.device, r.device),
                  ua)

\* Merge with `domains=entry.domains`: the domains just resolved are not
\* recorded
MergeEntryDomains(ua, entry, r) ==
    PartialResult(entry.domains,
                  ObjOr(entry.user_agent, r.user_agent),
                  ObjOr(entry.os, r.os),
                  ObjOr(entry.device, r.device),
                  ua)

\* the merge of a cached entry with what the resolver returned
Merge(ua, entry, r) ==
    PartialResult(entry.domains \cup r.domains,
                  ObjOr(entry.user_agent, r.user_agent),
                  ObjOr(entry.os, r.os),
                  ObjOr(entry.device, r.device),
                  ua)

\* IsHit without `if domains in entry.domains`: any entry is returned
IsHitAnyEntry(entry, domains) == entry # None

\* `if entry: if domains in entry.domains: return entry`
IsHit(entry, domains) == entry # None /\ domains \subseteq entry[1].domains

\* Needed without `domains &= ~entry.domains`: everything is resolved again
NeededAll(entry, domains) == domains

\* the domains handed to the wrapped resolver
Needed(entry, domains) == IF entry # None THEN domains \ entry[1].domains ELSE domains

\* the one element of a singleton: The({F(x) : x \in {e}}) is F(e) with e
\* evaluated once, as a statement `x = e` evaluates e before what follows
The(S) == CHOOSE x \in S : TRUE

\* `self.cache[ua] = r; return r`, after the lookup `looked`
Store(looked, needed, r, ua, o) ==
    The({CallOutcome(stored.self, stored.raised,
                     IF stored.raised = "" THEN Some(r) ELSE None,
                     looked.ret, Some(needed), Some(r)) :
            stored \in {Cache_setitem(looked.self, ua, o, r)}})

\* Backfill that catches what the resolver raises and stores a failed lookup
\* of the needed domains
BackfillSwallowsErrors(parser, looked, needed, ua, o) ==
    The({Store(looked, needed,
               The({IF looked.ret # None THEN Merge(ua, looked.ret[1], r) ELSE r :
                       r \in {IF res.raised # ""
                              THEN PartialResult(needed, None, None, None, ua)
                              ELSE res.r[1]}}),
               ua, o) :
            res \in {Resolver_call(parser, ua, needed)}})

\* `r = self.parser(ua, domains)` and the merge with the entry looked up
Backfill(parser, looked, needed, ua, o) ==
    The({IF res.raised # ""
         THEN CallOutcome(looked.self, res.raised, None, looked.ret, Some(needed), None)
         ELSE Store(looked, needed,
                    IF looked.ret # None THEN Merge(ua, looked.ret[1], res.r[1])
                    ELSE res.r[1],
                    ua, o) :
            res \in {Resolver_call(parser, ua, needed)}})

\* CachingResolver.__call__(ua, domains), ua passed as the object [ua, o]
CachingResolver_call(parser, cache, ua, o, domains) ==
    The({IF looked.raised # ""
         THEN CallOutcome(looked.self, looked.raised, None, None, None, None)
         ELSE IF IsHit(looked.ret, domains)
         THEN CallOutcome(looked.self, "", looked.ret, looked.ret, None, None)
         ELSE Backfill(parser, looked, Needed(looked.ret, domains), ua, o) :
            looked \in {Cache_getitem(cache, ua)}})

\* Parser(CachingResolver(parser, cache)).parse(ua): `self(ua,
\* Domain.ALL).complete()`, as [self, raised, v]
Parser_parse(parser, cache, ua, o) ==
    The({IF out.raised # ""
         THEN [self |-> out.self, raised |-> out.raised, v |-> None]
         ELSE [self |-> out.self] @@ complete(out.ret[1]) :
            out \in {CachingResolver_call(parser, cache, ua, o, ALL)}})

(***************************************************************************)
(* Inputs: user-agent strings and rule sets.                               *)
(***************************************************************************)
UAList == << <<"a">>, <<"b">>, <<"a", "b">>, <<"x">>, <<"b", "a">> >>

UAs == {UAList[i] : i \in 1..NumUA}

\* the pattern "(a)"
ReA == Regex(<<"a">>, <<Some(<<"a">>)>>)

\* the pattern "(b)(a)?"
ReB == Regex(<<"b">>, <<Some(<<"b">>), None>>)

\* ([UserAgentMatcher("(a)")], [OSMatcher("(a)")], [DeviceMatcher("(a)")])
BackfillRules ==
    [user_agent_matchers |-> <<UserAgentMatcher(ReA, None, None, None, None, None)>>,
     os_matchers |-> <<OSMatcher(ReA, None, None, None, None, None)>>,
     device_matchers |-> <<DeviceMatcher(ReA, None, None, None)>>]

\* two rules per domain, so that the order of the rules decides the result
OrderedRules ==
    [user_agent_matchers |->
        <<UserAgentMatcher(ReB, Some(<<"B">>), Some(<<"1">>), None, None, None),
          UserAgentMatcher(ReA, None, None, None, None, None)>>,
     os_matchers |->
        <<OSMatcher(ReA, Some(<<"O", " ", "$", "1">>), None, None, None, None),
          OSMatcher(ReB, None, None, None, None, None)>>,
     device_matchers |->
        <<DeviceMatcher(ReB, Some(<<"$", "1", " ">>), Some(<<"$", "2">>), None),
          DeviceMatcher(ReA, None, None, Some(<<"m">>))>>]

RuleSets == {BackfillRules, OrderedRules}

(***************************************************************************)
(* State.                                                                  *)
(***************************************************************************)
VARIABLES
    parser,     \* the rule set of the wrapped (linear) resolver
    cache,      \* the cache object
    last,       \* the last operation and the path it took
    th,         \* per thread: where it is inside CachingResolver.__call__
    recent,     \* history: the keys, by latest insertion or get hit, oldest first
    written,    \* history: the [key, value] pairs that a put has stored
    puts        \* history: the number of puts begun, where a specification counts them

vars == <<parser, cache, last, th, recent, written, puts>>

Did(op, path) == [op |-> op, path |-> path]

\* the path a CachingResolver call took
CallPath(out) ==
    IF out.raised # "" THEN "raise"
    ELSE IF out.wrote = None THEN "hit"
    ELSE IF out.entry = None THEN "miss"
    ELSE "backfill"

\* the path a cache __setitem__ took, from the cache before and what it left
PutPath(before, key, out) ==
    IF out.raised # "" THEN "raise"
    ELSE IF key \in LiveKeys(before) THEN "overwrite"
    ELSE IF LiveKeys(before) \subseteq LiveKeys(out.self) THEN "insert"
    ELSE "evict"

\* a thread inside a call: where it stands (pc), the call's arguments, whether
\* the entry object its lookup found is still the one indexed under ua (live),
\* the freq it read from it (f), and the value it holds: what the get returned
\* once pc is "got", before that the value of the object if it left the cache
Thread(pc, ua, domains, live, f, entry) ==
    [pc |-> pc, ua |-> ua, domains |-> domains, live |-> live, f |-> f,
     entry |-> entry]

IdleThread == Thread("idle", << >>, {}, FALSE, 0, None)

\* no thread is inside a call
Idle == [t \in 1..NumThreads |-> IdleThread]

Caches(n) == {Lru(n), S3Fifo(n), Sieve(n)}

\* the domain sets a call asks for: any for the first user agent, the others
\* are parsed whole and serve to fill the cache
Requests(ua) == IF ua = UAList[1] THEN Domain ELSE {ALL}

Init ==
    /\ parser \in RuleSets
    /\ cache \in UNION {Caches(n) : n \in 0..MaxSize}
    /\ last = Did("init", "")
    /\ th = Idle
    /\ recent = << >>
    /\ written = {}
    /\ puts = 0

\* one thread calls CachingResolver(parser, cache)(ua, domains)
Call(ua, o, domains) ==
    \E out \in {CachingResolver_call(parser, cache, ua, o, domains)} :
    /\ cache' \in {Collect(out.self, {})}
    /\ last' = Did("call", CallPath(out))
    /\ UNCHANGED <<parser, th, recent, written, puts>>

Next == \E ua \in UAs : \E domains \in Requests(ua) : Call(ua, 1, domains)

\* a CachingResolver over each cache, called from one thread
Spec == Init /\ [][Next]_vars

(***************************************************************************)
(* The caches on their own: any sequence of gets and puts.                 *)
(***************************************************************************)
\* the keys given to the caches: one more than the largest cache can hold
Keys == {UAList[i] : i \in 1..(NumUA + 1)}

\* the values put under key: partial results of the resolver for it
Values(key) ==
    {Resolver_call(BackfillRules, key, domains).r[1] :
        domains \in IF key = UAList[1] THEN {{USER_AGENT}, ALL} ELSE {ALL}}

InitCache ==
    /\ parser = BackfillRules
    /\ cache \in UNION {Caches(n) : n \in 0..MaxSize}
    /\ last = Did("init", "")
    /\ th = Idle
    /\ recent = << >>
    /\ written = {}
    /\ puts = 0

\* cache[key]
Get(key) ==
    \E out \in {Cache_getitem(cache, key)} :
    /\ cache' \in {Collect(out.self, {})}
    /\ last' = Did("get", IF out.raised # "" THEN "raise"
                          ELSE IF out.ret = None THEN "miss" ELSE "hit")
    /\ UNCHANGED <<parser, th, recent, written, puts>>

\* cache[key] = value
Put(key, o, value) ==
    \E out \in {Cache_setitem(cache, key, o, value)} :
    /\ cache' \in {Collect(out.self, {})}
    /\ last' = Did("put", PutPath(cache, key, out))
    /\ UNCHANGED <<parser, th, recent, written, puts>>

NextCache ==
    \/ \E key \in Keys : Get(key)
    \/ \E key \in Keys : \E value \in Values(key) : Put(key, 1, value)

SpecCache == InitCache /\ [][NextCache]_vars

(***************************************************************************)
(* Threads sharing one CachingResolver.  Lru.__getitem__ and every         *)
(* __setitem__ hold the cache's lock and are one step each; the            *)
(* __getitem__ of S3Fifo and of Sieve take no lock and are a step per      *)
(* access to the shared entry object.                                      *)
(***************************************************************************)
\* the domain sets the threads ask for
MTRequests(ua) ==
    IF ua = UAList[1] THEN {{USER_AGENT}, {OS}, ALL} ELSE {ALL}

\* the threads after a put turned the cache from before into after: an entry
\* object that left the index is out of reach of later puts, its value is
\* the one it had
Detach(ths, before, after) ==
    [t \in DOMAIN ths |->
        IF ths[t].live /\ Held(after, ths[t].ua) = None
        THEN [ths[t] EXCEPT !.live = FALSE, !.entry = Held(before, ths[t].ua)]
        ELSE ths[t]]

InitMT ==
    /\ parser = BackfillRules
    /\ cache \in UNION {Caches(n) : n \in 1..MaxSize}
    /\ last = Did("init", "")
    /\ th = Idle
    /\ recent = << >>
    /\ written = {}
    /\ puts = 0

\* `entry = self.cache[ua]`: all of Lru.__getitem__, under its lock; for
\* S3Fifo and Sieve the lookup `self.index.get(key)` / `self.cache.get(key)`
Lookup(t, ua, domains) ==
    /\ th[t].pc = "idle"
    /\ IF cache.kind = "Lru"
       THEN \E out \in {Lru_getitem(cache, ua)} :
               /\ cache' = out.self
               /\ th' = [th EXCEPT ![t] = Thread("got", ua, domains, FALSE, 0, out.ret)]
       ELSE /\ cache' = cache
            /\ th' = [th EXCEPT ![t] =
                        IF Held(cache, ua) # None
                        THEN Thread("looked", ua, domains, TRUE, 0, None)
                        ELSE Thread("got", ua, domains, FALSE, 0, None)]
    /\ UNCHANGED <<parser, last, recent, written, puts>>

\* S3Fifo.__getitem__: the read of e.freq in `e.freq = min(e.freq + 1, 3)`
ReadFreq(t) ==
    /\ cache.kind = "S3Fifo"
    /\ th[t].pc = "looked"
    /\ th' = [th EXCEPT ![t].pc = "incr",
                        ![t].f = IF th[t].live
                                 THEN cache.heap[cache.index[th[t].ua].ref].freq
                                 ELSE 0]
    /\ UNCHANGED <<parser, cache, last, recent, written, puts>>

\* S3Fifo.__getitem__: the store to e.freq and `return e.value`;
\* Sieve.__getitem__: `entry.visited = True; return entry.value`
Touch(t) ==
    /\ \/ cache.kind = "S3Fifo" /\ th[t].pc = "incr"
       \/ cache.kind = "Sieve" /\ th[t].pc = "looked"
    /\ cache' = IF ~th[t].live THEN cache
                ELSE IF cache.kind = "S3Fifo"
                THEN [cache EXCEPT !.heap[cache.index[th[t].ua].ref].freq =
                                        Min(th[t].f + 1, 3)]
                ELSE [cache EXCEPT !.heap[cache.cache[th[t].ua]].visited = TRUE]
    /\ th' = [th EXCEPT ![t] =
                Thread("got", th[t].ua, th[t].domains, FALSE, 0,
                       IF th[t].live THEN Held(cache, th[t].ua) ELSE th[t].entry)]
    /\ UNCHANGED <<parser, last, recent, written, puts>>

\* the rest of CachingResolver.__call__ once the get returned: return the
\* entry, or resolve what it lacks, merge and put
Finish(t) ==
    /\ th[t].pc = "got"
    /\ IF IsHit(th[t].entry, th[t].domains)
       THEN /\ cache' = cache
            /\ th' = [th EXCEPT ![t] = IdleThread]
            /\ last' = Did("call", "hit")
       ELSE \E out \in {Backfill(parser, Outcome(cache, "", th[t].entry),
                                 Needed(th[t].entry, th[t].domains), th[t].ua, 1)} :
               /\ cache' \in {Collect(out.self, {})}
               /\ th' = Detach([th EXCEPT ![t] = IdleThread], cache, out.self)
               /\ last' = Did("call", CallPath(out))
    /\ UNCHANGED <<parser, recent, written, puts>>

NextMT ==
    \E t \in 1..NumThreads :
        \/ \E ua \in UAs : \E domains \in MTRequests(ua) : Lookup(t, ua, domains)
        \/ ReadFreq(t)
        \/ Touch(t)
        \/ Finish(t)

SpecMT == InitMT /\ [][NextMT]_vars

(***************************************************************************)
(* One Sieve of SieveSize entries and one key more than it holds, so that  *)
(* the hand comes to stand between tail and head.                          *)
(***************************************************************************)
SieveKeys == {UAList[i] : i \in 1..(SieveSize + 1)}

\* the value put under key
SieveValue(key) == Resolver_call(BackfillRules, key, ALL).r[1]

InitSieve ==
    /\ parser = BackfillRules
    /\ cache = Sieve(SieveSize)
    /\ last = Did("init", "")
    /\ th = Idle
    /\ recent = << >>
    /\ written = {}
    /\ puts = 0

\* cache[key]
SieveGet(key) ==
    \E out \in {Sieve_getitem(cache, key)} :
    /\ cache' \in {Collect(out.self, {})}
    /\ last' = Did("get", IF out.ret = None THEN "miss" ELSE "hit")
    /\ UNCHANGED <<parser, th, recent, written, puts>>

\* cache[key] = value
SievePut(key) ==
    \E out \in {Sieve_setitem(cache, key, SieveValue(key))} :
    /\ cache' \in {Collect(out.self, {})}
    /\ last' = Did("put", PutPath(cache, key, out))
    /\ UNCHANGED <<parser, th, recent, written, puts>>

NextSieve ==
    \/ \E key \in SieveKeys : SieveGet(key)
    \/ \E key \in SieveKeys : SievePut(key)

SpecSieve == InitSieve /\ [][NextSieve]_vars

(***************************************************************************)
(* The Lru on its own, with the history of what touched its keys.  Both    *)
(* __getitem__ and __setitem__ hold the lock from start to end, so the     *)
(* operations of several threads are steps taken one after the other.      *)
(***************************************************************************)
\* seq without key, then key
Touched(seq, key) == Append(SelectSeq(seq, LAMBDA k : k # key), key)

InitLru ==
    /\ parser = BackfillRules
    /\ cache \in {Lru(n) : n \in 0..MaxSize}
    /\ last = Did("init", "")
    /\ th = Idle
    /\ recent = << >>
    /\ written = {}
    /\ puts = 0

\* Lru.__getitem__(key); a hit is recorded in the history
LruGet(key) ==
    \E out \in {Lru_getitem(cache, key)} :
    /\ cache' = out.self
    /\ last' = Did("get", IF out.ret = None THEN "miss" ELSE "hit")
    /\ recent' = IF out.ret = None THEN recent ELSE Touched(recent, key)
    /\ UNCHANGED <<parser, th, written, puts>>

\* Lru.__setitem__(key, value); an insertion is recorded in the history
LruPut(key, value) ==
    \E out \in {Lru_setitem(cache, key, value)} :
    /\ cache' = out.self
    /\ last' = Did("put", PutPath(cache, key, out))
    /\ recent' = IF out.raised = "" /\ key \notin LiveKeys(cache)
                 THEN Touched(recent, key) ELSE recent
    /\ UNCHANGED <<parser, th, written, puts>>

NextLru ==
    \/ \E key \in Keys : LruGet(key)
    \/ \E key \in Keys : \E value \in Values(key) : LruPut(key, value)

SpecLru == InitLru /\ [][NextLru]_vars

(***************************************************************************)
(* S3Fifo and Sieve shared by threads, a step per access to shared data.   *)
(* __setitem__ runs under self.lock; __getitem__ takes no lock, so its     *)
(* accesses to the index and to the entry it found fall between the steps  *)
(* of a put.  A thread holds references to objects (e, p), which keep them *)
(* alive after the cache has dropped them.                                 *)
(***************************************************************************)
\* `self.lock = threading.Lock()`: 0 when free, else the thread holding it
Locked(self) == [lock |-> 0] @@ self

\* a thread: where it stands, the key and value of its call, the entry (e)
\* and the previous node (p) it holds, and the freq it has read
RaceThread(pc, key, value, e, p, f) ==
    [pc |-> pc, key |-> key, value |-> value, e |-> e, p |-> p, f |-> f]

RaceIdle == RaceThread("idle", << >>, None, Null, Null, 0)

\* the objects the threads hold
Roots(thr) == ({thr[t].e : t \in DOMAIN thr} \cup {thr[t].p : t \in DOMAIN thr}) \ {Null}

\* the step's outcome: the cache and the threads once the objects nothing
\* refers to are gone
Commit(self, thr) ==
    /\ cache' \in {Collect(self, Roots(thr))}
    /\ th' = [t \in DOMAIN thr |->
                [thr[t] EXCEPT !.e = Renamed(self, Roots(thr), @),
                               !.p = Renamed(self, Roots(thr), @)]]

\* `min(e.freq + 1, 3)` without the min
BumpedUncapped(f) == f + 1

\* `min(e.freq + 1, 3)`
Bumped(f) == Min(f + 1, 3)

InitRace ==
    /\ parser = BackfillRules
    /\ cache \in {Locked(S3Fifo(MaxSize)), Locked(Sieve(MaxSize))}
    /\ last = Did("init", "")
    /\ th = [t \in 1..NumThreads |-> RaceIdle]
    /\ recent = << >>
    /\ written = {}
    /\ puts = 0

\* __getitem__: `self.index.get(key)` / `self.cache.get(key)`; a miss returns
GetLookup(t, key) ==
    /\ th[t].pc = "idle"
    /\ IF cache.kind = "S3Fifo"
       THEN IF S3IsLive(cache, key)
            THEN Commit(cache, [th EXCEPT ![t] =
                        RaceThread("g_freq", key, None, cache.index[key].ref, Null, 0)])
            ELSE Commit(cache, [th EXCEPT ![t] = RaceThread("got", key, None, Null, Null, 0)])
       ELSE IF key \in DOMAIN cache.cache
            THEN Commit(cache, [th EXCEPT ![t] =
                        RaceThread("g_visit", key, None, cache.cache[key], Null, 0)])
            ELSE Commit(cache, [th EXCEPT ![t] = RaceThread("got", key, None, Null, Null, 0)])
    /\ UNCHANGED <<parser, last, recent, written, puts>>

\* S3Fifo.__getitem__: the read of `e.freq`
S3GetLoad(t) ==
    /\ th[t].pc = "g_freq"
    /\ Commit(cache, [th EXCEPT ![t].pc = "g_inc", ![t].f = cache.heap[th[t].e].freq])
    /\ UNCHANGED <<parser, last, recent, written, puts>>

\* S3Fifo.__getitem__: the write of `e.freq`
S3GetStore(t) ==
    /\ th[t].pc = "g_inc"
    /\ Commit([cache EXCEPT !.heap[th[t].e].freq = Bumped(th[t].f)],
              [th EXCEPT ![t].pc = "g_value", ![t].f = 0])
    /\ UNCHANGED <<parser, last, recent, written, puts>>

\* Sieve.__getitem__: `entry.visited = True`
SieveGetVisit(t) ==
    /\ th[t].pc = "g_visit"
    /\ Commit([cache EXCEPT !.heap[th[t].e].visited = TRUE],
              [th EXCEPT ![t].pc = "g_value"])
    /\ UNCHANGED <<parser, last, recent, written, puts>>

\* __getitem__: `return e.value`; the thread holds what the get returned
GetReturn(t) ==
    /\ th[t].pc = "g_value"
    /\ Commit(cache, [th EXCEPT ![t] =
           RaceThread("got", th[t].key, Some(cache.heap[th[t].e].value), Null, Null, 0)])
    /\ UNCHANGED <<parser, last, recent, written, puts>>

\* the caller takes the result of the get
GetDone(t) ==
    /\ th[t].pc = "got"
    /\ Commit(cache, [th EXCEPT ![t] = RaceIdle])
    /\ UNCHANGED <<parser, last, recent, written, puts>>

\* where S3Fifo.__setitem__ goes on after the first test of the capacity
S3AfterLookup(self) ==
    IF Len(self.small) + Len(self.main) >= self.maxsize
    THEN IF Len(self.main) < self.main_target THEN "s_small" ELSE "s_main"
    ELSE "s_insert"

\* where S3Fifo.__setitem__ goes on after _evict_small
S3AfterSmall(self) ==
    IF Len(self.small) + Len(self.main) >= self.maxsize THEN "s_main" ELSE "s_insert"

\* __setitem__ up to its first access to an entry: takes the lock, looks the
\* key up, and either overwrites the value and is done, or goes on to make room
PutStart(t, key, value) ==
    /\ th[t].pc = "idle"
    /\ cache.lock = 0
    /\ puts < MaxPuts
    /\ puts' = puts + 1
    /\ IF key \in LiveKeys(cache)
       THEN /\ Commit(Cache_setitem(cache, key, 1, value).self, th)
            /\ UNCHANGED last
            /\ written' = written \cup {<<key, value>>}
       ELSE /\ Commit([cache EXCEPT !.lock = t],
                      [th EXCEPT ![t] =
                          IF cache.kind = "S3Fifo"
                          THEN RaceThread(S3AfterLookup(cache), key, value, Null, Null, 0)
                          ELSE IF Cardinality(DOMAIN cache.cache) < cache.maxsize
                          THEN RaceThread("v_insert", key, value, Null, Null, 0)
                          ELSE IF cache.hand # Null
                          THEN RaceThread("v_scan", key, value, cache.hand, cache.prev, 0)
                          ELSE RaceThread("v_scan", key, value, cache.tail, Null, 0)])
            /\ UNCHANGED <<last, written>>
    /\ UNCHANGED <<parser, recent>>

\* the put of thread t ends with an exception: `with self.lock` releases
PutRaises(t) ==
    /\ Commit([cache EXCEPT !.lock = 0], [th EXCEPT ![t] = RaceIdle])
    /\ UNCHANGED last

\* _evict_small: `while self.small: e = self.small.pop(); if e.freq:`
S3EvictSmallPop(t) ==
    /\ th[t].pc = "s_small"
    /\ IF cache.small = << >>
       THEN Commit(cache, [th EXCEPT ![t].pc = S3AfterSmall(cache)])
       ELSE \E e \in {cache.small[Len(cache.small)]} :
            Commit([cache EXCEPT !.small = popped(cache.small)],
                   [th EXCEPT ![t].e = e,
                              ![t].pc = IF cache.heap[e].freq # 0
                                        THEN "s_small_w" ELSE "s_small_g"])
    /\ UNCHANGED <<parser, last, recent, written, puts>>

\* _evict_small: `e.freq = 0; self.main.appendleft(e)`
S3EvictSmallPromote(t) ==
    /\ th[t].pc = "s_small_w"
    /\ Commit([cache EXCEPT !.heap[th[t].e].freq = 0,
                            !.main = appendleft(cache.main, th[t].e)],
              [th EXCEPT ![t].pc = "s_small", ![t].e = Null])
    /\ UNCHANGED <<parser, last, recent, written, puts>>

\* _evict_small: the key becomes a ghost, the ghost queue is trimmed
S3EvictSmallDemote(t) ==
    /\ th[t].pc = "s_small_g"
    /\ \E g \in {[key |-> cache.heap[th[t].e].key, o |-> cache.heap[th[t].e].o]} :
       \E out \in {S3TrimGhost(
                      [cache EXCEPT !.index = DictSet(cache.index, g.key,
                                                      [t |-> "ghost", ref |-> g.o]),
                                    !.ghost = appendleft(cache.ghost, g)])} :
          IF out.raised # ""
          THEN PutRaises(t)
          ELSE /\ Commit(out.self,
                         [th EXCEPT ![t].pc = S3AfterSmall(out.self), ![t].e = Null])
               /\ UNCHANGED last
    /\ UNCHANGED <<parser, recent, written, puts>>

\* _evict_main: `e = self.main.pop(); if e.freq:`
S3EvictMainPop(t) ==
    /\ th[t].pc = "s_main"
    /\ IF cache.main = << >>
       THEN PutRaises(t)
       ELSE /\ \E e \in {cache.main[Len(cache.main)]} :
               Commit([cache EXCEPT !.main = popped(cache.main)],
                      [th EXCEPT ![t].e = e,
                                 ![t].pc = IF cache.heap[e].freq # 0
                                           THEN "s_main_r" ELSE "s_main_d"])
            /\ UNCHANGED last
    /\ UNCHANGED <<parser, recent, written, puts>>

\* _evict_main: `e.freq -= 1`, the read
S3EvictMainLoad(t) ==
    /\ th[t].pc = "s_main_r"
    /\ Commit(cache, [th EXCEPT ![t].pc = "s_main_w", ![t].f = cache.heap[th[t].e].freq])
    /\ UNCHANGED <<parser, last, recent, written, puts>>

\* _evict_main: `e.freq -= 1`, the write, and `self.main.appendleft(e)`
S3EvictMainStore(t) ==
    /\ th[t].pc = "s_main_w"
    /\ Commit([cache EXCEPT !.heap[th[t].e].freq = th[t].f - 1,
                            !.main = appendleft(cache.main, th[t].e)],
              [th EXCEPT ![t].pc = "s_main", ![t].e = Null, ![t].f = 0])
    /\ UNCHANGED <<parser, last, recent, written, puts>>

\* _evict_main: `del self.index[e.key]; return`
S3EvictMainDel(t) ==
    /\ th[t].pc = "s_main_d"
    /\ IF cache.heap[th[t].e].key \notin DOMAIN cache.index
       THEN PutRaises(t)
       ELSE /\ Commit([cache EXCEPT !.index = DictDel(cache.index, cache.heap[th[t].e].key)],
                      [th EXCEPT ![t].pc = "s_insert", ![t].e = Null])
            /\ UNCHANGED last
    /\ UNCHANGED <<parser, recent, written, puts>>

\* S3Fifo.__setitem__ from `entry = CacheEntry(key, r, 0)` on
S3Insert(self, key, o, r) ==
    LET entry == NewId(self.heap)
        obj == [key |-> key, o |-> o, value |-> r, freq |-> 0]
    IN [self EXCEPT !.heap = DictSet(self.heap, entry, obj),
                    !.main = IF S3IsGhost(self, key)
                             THEN appendleft(self.main, entry) ELSE self.main,
                    !.small = IF S3IsGhost(self, key)
                              THEN self.small ELSE appendleft(self.small, entry),
                    !.index = DictSet(self.index, key, [t |-> "entry", ref |-> entry])]

\* _evict: `while obj and obj.visited:`, the test
SieveEvictTest(t) ==
    /\ th[t].pc = "v_scan"
    /\ Commit(cache, [th EXCEPT ![t].pc = IF th[t].e = Null THEN "v_insert"
                                          ELSE IF cache.heap[th[t].e].visited
                                          THEN "v_clear" ELSE "v_unlink"])
    /\ UNCHANGED <<parser, last, recent, written, puts>>

\* _evict: `obj.visited = False` and the advance to the next node
SieveEvictClear(t) ==
    /\ th[t].pc = "v_clear"
    /\ Commit([cache EXCEPT !.heap[th[t].e].visited = FALSE],
              IF cache.heap[th[t].e].next # Null
              THEN [th EXCEPT ![t].pc = "v_scan", ![t].e = cache.heap[th[t].e].next,
                              ![t].p = th[t].e]
              ELSE [th EXCEPT ![t].pc = "v_scan", ![t].e = cache.tail, ![t].p = Null])
    /\ UNCHANGED <<parser, last, recent, written, puts>>

\* _evict from `self.hand = obj.next` on
SieveUnlink(self, obj, pobj) ==
    LET next == self.heap[obj].next
        s1 == [self EXCEPT !.hand = next, !.prev = pobj]
    IN IF self.heap[obj].key \notin DOMAIN self.cache
       THEN Outcome(s1, "KeyError", None)
       ELSE Outcome(
                [s1 EXCEPT !.cache = DictDel(self.cache, self.heap[obj].key),
                           !.head = IF next = Null THEN pobj ELSE self.head,
                           !.heap = IF pobj # Null
                                    THEN [self.heap EXCEPT ![pobj].next = next]
                                    ELSE self.heap,
                           !.tail = IF pobj # Null THEN self.tail ELSE next],
                "", None)

\* _evict: the node found is taken out of the cache
SieveEvictUnlink(t) ==
    /\ th[t].pc = "v_unlink"
    /\ \E out \in {SieveUnlink(cache, th[t].e, th[t].p)} :
          IF out.raised # ""
          THEN PutRaises(t)
          ELSE /\ Commit(out.self,
                         [th EXCEPT ![t].pc = "v_insert", ![t].e = Null, ![t].p = Null])
               /\ UNCHANGED last
    /\ UNCHANGED <<parser, recent, written, puts>>

\* Sieve.__setitem__ from `node = self.cache[key] = SieveNode(...)` on
SieveInsert(self, key, value) ==
    LET node == NewId(self.heap)
        obj == [key |-> key, value |-> value, visited |-> FALSE, next |-> Null]
        heap1 == DictSet(self.heap, node, obj)
    IN [self EXCEPT !.cache = DictSet(self.cache, key, node),
                    !.heap = IF self.head # Null
                             THEN [heap1 EXCEPT ![self.head].next = node]
                             ELSE heap1,
                    !.head = node,
                    !.tail = IF self.tail = Null THEN node ELSE self.tail]

\* __setitem__: the new entry is created and indexed, the lock is released
PutInsert(t) ==
    /\ th[t].pc \in {"s_insert", "v_insert"}
    /\ \E c \in {IF cache.kind = "S3Fifo"
                 THEN S3Insert(cache, th[t].key, 1, th[t].value)
                 ELSE SieveInsert(cache, th[t].key, th[t].value)} :
          Commit([c EXCEPT !.lock = 0], [th EXCEPT ![t] = RaceIdle])
    /\ UNCHANGED last
    /\ written' = written \cup {<<th[t].key, th[t].value>>}
    /\ UNCHANGED <<parser, recent, puts>>

NextRace ==
    \/ \E t \in DOMAIN th : \E key \in Keys : GetLookup(t, key)
    \/ \E t \in DOMAIN th : S3GetLoad(t)
    \/ \E t \in DOMAIN th : S3GetStore(t)
    \/ \E t \in DOMAIN th : SieveGetVisit(t)
    \/ \E t \in DOMAIN th : GetReturn(t)
    \/ \E t \in DOMAIN th : GetDone(t)
    \/ \E t \in DOMAIN th : \E key \in Keys : PutStart(t, key, SieveValue(key))
    \/ \E t \in DOMAIN th : S3EvictSmallPop(t)
    \/ \E t \in DOMAIN th : S3EvictSmallPromote(t)
    \/ \E t \in DOMAIN th : S3EvictSmallDemote(t)
    \/ \E t \in DOMAIN th : S3EvictMainPop(t)
    \/ \E t \in DOMAIN th : S3EvictMainLoad(t)
    \/ \E t \in DOMAIN th : S3EvictMainStore(t)
    \/ \E t \in DOMAIN th : S3EvictMainDel(t)
    \/ \E t \in DOMAIN th : SieveEvictTest(t)
    \/ \E t \in DOMAIN th : SieveEvictClear(t)
    \/ \E t \in DOMAIN th : SieveEvictUnlink(t)
    \/ \E t \in DOMAIN th : PutInsert(t)

SpecRace == InitRace /\ [][NextRace]_vars

\* a step of the put that thread t is in: the thread holds the lock and no
\* other thread can stop it, so it goes on whenever it is scheduled
PutStep(t) ==
    \/ S3EvictSmallPop(t) \/ S3EvictSmallPromote(t) \/ S3EvictSmallDemote(t)
    \/ S3EvictMainPop(t) \/ S3EvictMainLoad(t) \/ S3EvictMainStore(t)
    \/ S3EvictMainDel(t)
    \/ SieveEvictTest(t) \/ SieveEvictClear(t) \/ SieveEvictUnlink(t)
    \/ PutInsert(t)

\* the threads that call put, and those that call get
Putters == {1}
Getters == 2..NumThreads

NextFair ==
    \/ \E t \in Getters : \E key \in Keys : GetLookup(t, key)
    \/ \E t \in Getters : S3GetLoad(t)
    \/ \E t \in Getters : S3GetStore(t)
    \/ \E t \in Getters : SieveGetVisit(t)
    \/ \E t \in Getters : GetReturn(t)
    \/ \E t \in Getters : GetDone(t)
    \/ \E t \in Putters : \E key \in Keys : PutStart(t, key, SieveValue(key))
    \/ \E t \in Putters : PutStep(t)

\* threads that put and threads that get, under a scheduler that is fair to
\* a thread inside a put; the threads that call get run as they may
SpecRaceFair ==
    InitRace /\ [][NextFair]_vars /\ \A t \in Putters : WF_vars(PutStep(t))

(***************************************************************************)
(* The resolvers on their own: the linear and the prefiltered resolver     *)
(* over the same rules, called with the same arguments.                    *)
(***************************************************************************)
\* the longest rule list of a domain
MaxRules == 2

\* "x" * n
Filler(n) == [i \in 1..n |-> "x"]

\* "a", then one "x" more than a simplified repetition's smallest bound, then "b"
LongUA == <<"a">> \o Filler(MinSimplified + 1) \o <<"b">>

ResolveUAs == {UAList[i] : i \in 1..Len(UAList)} \cup {LongUA}

\* the pattern "(a).{0,100}b"
ReRep == RegexRep(<<"a">>, 0, MinSimplified, <<"b">>, <<Some(<<"a">>)>>)

\* the pattern "b": no group
ReNoGroup == Regex(<<"b">>, << >>)

\* the pattern "x(q)?": on these user agents its group never participates
ReOptional == Regex(<<"x">>, <<None>>)

UserAgentPool ==
    {UserAgentMatcher(ReRep, Some(<<"R">>), None, None, None, None),
     UserAgentMatcher(ReA, None, None, None, None, None),
     UserAgentMatcher(ReNoGroup, None, None, None, None, None),
     UserAgentMatcher(ReOptional, None, Some(<<"1">>), None, None, None)}

\* the lists of at most n distinct elements of S
Lists(S, n) ==
    UNION {{q \in [1..k -> S] : \A i, j \in 1..k : q[i] = q[j] => i = j} : k \in 0..n}

\* the OS and device rules that go with the user-agent rules
OtherRules ==
    {[os_matchers |-> << >>, device_matchers |-> << >>],
     [os_matchers |-> <<OSMatcher(ReA, None, None, None, None, None)>>,
      device_matchers |-> <<DeviceMatcher(ReA, None, None, None)>>],
     [os_matchers |-> <<OSMatcher(ReNoGroup, None, None, None, None, None),
                        OSMatcher(ReA, None, None, None, None, None)>>,
      device_matchers |-> <<DeviceMatcher(ReB, Some(<<" ", "$", "2">>), None, None),
                            DeviceMatcher(ReA, None, Some(<<"$", "7">>), None)>>],
     [os_matchers |-> <<OSMatcher(ReA, Some(<<"O", "$", "2">>), None, None, None, None),
                        OSMatcher(ReOptional, None, None, None, None, None)>>,
      device_matchers |-> <<DeviceMatcher(ReRep, Some(<<"D">>), None, None),
                            DeviceMatcher(ReB, None, Some(<<"$", "2">>), None)>>]}

ResolveRuleSets ==
    {[user_agent_matchers |-> u, os_matchers |-> o.os_matchers,
      device_matchers |-> o.device_matchers] :
        u \in Lists(UserAgentPool, MaxRules), o \in OtherRules}

\* the orders in which the set engine may report the indices
Orders == {q \in [1..MaxRules -> 1..MaxRules] : \A i, j \in 1..MaxRules : q[i] = q[j] => i = j}

InitResolve ==
    /\ parser \in ResolveRuleSets
    /\ cache = Lru(0)
    /\ last = Did("init", "")
    /\ th = Idle
    /\ recent = << >>
    /\ written = {}
    /\ puts = 0

\* basic.Resolver(parser)(ua, domains) and re2.Resolver(parser)(ua, domains),
\* the set engine reporting the indices in `order`; the resolvers keep no
\* state, so a behaviour makes one call
Resolve(ua, domains, order) ==
    /\ last.op = "init"
    /\ last' = [op |-> "resolve", ua |-> ua, domains |-> domains, order |-> order,
                linear |-> Resolver_call(parser, ua, domains),
                re2 |-> Re2Resolver_call(parser, ua, domains, order)]
    /\ UNCHANGED <<parser, cache, th, recent, written, puts>>

NextResolve ==
    \E ua \in ResolveUAs : \E domains \in Domain : \E order \in Orders :
        Resolve(ua, domains, order)

SpecResolve == InitResolve /\ [][NextResolve]_vars

(***************************************************************************)
(* The caching resolver over rules that are ill-formed for some user       *)
(* agents: an OS or device family that resolves to None.                   *)
(***************************************************************************)
\* OS rule "b" (no group, family $1) before a well-formed one
RaisingOSRules ==
    [user_agent_matchers |-> <<UserAgentMatcher(ReA, None, None, None, None, None)>>,
     os_matchers |-> <<OSMatcher(ReNoGroup, None, None, None, None, None),
                       OSMatcher(ReA, None, None, None, None, None)>>,
     device_matchers |-> <<DeviceMatcher(ReA, None, None, None)>>]

\* device rule "(a)" with family " $2" after one that matches "(b)(a)?" only
RaisingDeviceRules ==
    [user_agent_matchers |-> <<UserAgentMatcher(ReB, None, None, None, None, None)>>,
     os_matchers |-> <<OSMatcher(ReB, None, None, None, None, None)>>,
     device_matchers |-> <<DeviceMatcher(ReB, None, Some(<<"$", "2">>), None),
                           DeviceMatcher(ReA, Some(<<" ", "$", "2">>), None, None)>>]

InitRaise ==
    /\ parser \in {RaisingOSRules, RaisingDeviceRules}
    /\ cache \in UNION {Caches(n) : n \in 0..MaxSize}
    /\ last = Did("init", "")
    /\ th = Idle
    /\ recent = << >>
    /\ written = {}
    /\ puts = 0

NextRaise == \E ua \in UAs : \E domains \in Domain : Call(ua, 1, domains)

SpecRaise == InitRaise /\ [][NextRaise]_vars

(***************************************************************************)
(* Local: one inner cache per context.  A ContextVar holds one binding per *)
(* contextvars.Context; a thread starts in an empty context of its own,    *)
(* copy_context() makes a context with the bindings of the current one,    *)
(* and Context.run enters a context that no thread is in.                  *)
(***************************************************************************)
\* the contexts made by copy_context()
MaxCopies == 1

\* Local(factory): cv maps each context to the inner cache bound in it (Null
\* if cv.get(None) is None), heap holds the caches the factory has made
Local(factory) ==
    [kind |-> "Local", factory |-> factory,
     cv |-> [c \in 1..NumThreads |-> Null], heap |-> EmptyDict]

\* the property Local.cache, read in context ctx: [self, c, made]
Local_cache(self, ctx) ==
    IF self.cv[ctx] # Null THEN [self |-> self, c |-> self.cv[ctx], made |-> 0]
    ELSE LET c == NewId(self.heap) IN
         [self |-> [self EXCEPT !.heap = DictSet(self.heap, c, self.factory),
                                !.cv[ctx] = c],
          c |-> c, made |-> 1]

\* Local.__getitem__(key) in context ctx
Local_getitem(self, ctx, key) ==
    The({The({[self |-> [p.self EXCEPT !.heap[p.c] = out.self],
               raised |-> out.raised, ret |-> out.ret, c |-> p.c, made |-> p.made] :
                 out \in {Cache_getitem(p.self.heap[p.c], key)}}) :
            p \in {Local_cache(self, ctx)}})

\* Local.__setitem__(key, value) in context ctx
Local_setitem(self, ctx, key, o, value) ==
    The({The({[self |-> [p.self EXCEPT !.heap[p.c] = out.self],
               raised |-> out.raised, ret |-> None, c |-> p.c, made |-> p.made] :
                 out \in {Cache_setitem(p.self.heap[p.c], key, o, value)}}) :
            p \in {Local_cache(self, ctx)}})

\* a thread: the contexts it has entered, innermost last; and, as history,
\* the inner caches its gets and puts went to (used), the number of factory
\* calls made on it (made), and whether it ever ran in a context other than
\* the one it started in (entered)
LocalThread(stack, used, made, entered) ==
    [stack |-> stack, used |-> used, made |-> made, entered |-> entered]

\* the context thread t runs in
Current(t) == th[t].stack[Len(th[t].stack)]

\* the contexts some thread is in
Entered == UNION {Range(th[t].stack) : t \in 1..NumThreads}

InitLocal ==
    /\ parser = BackfillRules
    /\ cache = Local(Lru(MaxSize))
    /\ last = Did("init", "")
    /\ th = [t \in 1..NumThreads |-> LocalThread(<<t>>, {}, 0, FALSE)]
    /\ recent = << >>
    /\ written = EmptyDict
    /\ puts = 0

\* what the history keeps of a get or put by thread t
Used(t, out) ==
    [th EXCEPT ![t].used = @ \cup {out.c}, ![t].made = @ + out.made]

\* thread t: cache[key]
LocalGet(t, key) ==
    \E out \in {Local_getitem(cache, Current(t), key)} :
    /\ cache' = out.self
    /\ th' = Used(t, out)
    /\ last' = [op |-> "get", path |-> IF out.ret = None THEN "miss" ELSE "hit",
                t |-> t, key |-> key, c |-> out.c]
    /\ UNCHANGED <<parser, recent, written, puts>>

\* thread t: cache[key] = value; written keeps who put the entry last
LocalPut(t, key, value) ==
    \E out \in {Local_setitem(cache, Current(t), key, 1, value)} :
    /\ cache' = out.self
    /\ th' = Used(t, out)
    /\ written' = DictSet(written, <<out.c, key>>, t)
    /\ last' = [op |-> "put", path |-> "", t |-> t, key |-> key, c |-> out.c]
    /\ UNCHANGED <<parser, recent, puts>>

\* thread t: contextvars.copy_context()
CopyContext(t) ==
    /\ Cardinality(DOMAIN cache.cv) < NumThreads + MaxCopies
    /\ cache' = [cache EXCEPT !.cv = DictSet(@, Cardinality(DOMAIN @) + 1, @[Current(t)])]
    /\ last' = [op |-> "copy", path |-> "", t |-> t, key |-> << >>, c |-> Null]
    /\ UNCHANGED <<parser, th, recent, written, puts>>

\* thread t: ctx.run(...) begins, ctx a copy that no thread is in
EnterContext(t, ctx) ==
    /\ ctx \in DOMAIN cache.cv /\ ctx > NumThreads /\ ctx \notin Entered
    /\ th' = [th EXCEPT ![t].stack = Append(@, ctx), ![t].entered = TRUE]
    /\ last' = [op |-> "enter", path |-> "", t |-> t, key |-> << >>, c |-> Null]
    /\ UNCHANGED <<parser, cache, recent, written, puts>>

\* thread t: ctx.run(...) returns
ExitContext(t) ==
    /\ Len(th[t].stack) > 1
    /\ th' = [th EXCEPT ![t].stack = SubSeq(@, 1, Len(@) - 1)]
    /\ last' = [op |-> "exit", path |-> "", t |-> t, key |-> << >>, c |-> Null]
    /\ UNCHANGED <<parser, cache, recent, written, puts>>

NextLocal ==
    \E t \in 1..NumThreads :
        \/ \E key \in UAs : LocalGet(t, key)
        \/ \E key \in UAs : LocalPut(t, key, SieveValue(key))
        \/ CopyContext(t)
        \/ \E ctx \in DOMAIN cache.cv : EnterContext(t, ctx)
        \/ ExitContext(t)

SpecLocal == InitLocal /\ [][NextLocal]_vars

(***************************************************************************)
(* The lazy global parser: threads read ua_parser.parser, and may delete   *)
(* it.  Here `cache` holds the module's globals: parser (Null while the    *)
(* name is unset, else the instance) and the holder of _lazy_globals_lock  *)
(* (0 when free); `recent` lists the instances constructed, `written` the  *)
(* instances deleted.                                                      *)
(***************************************************************************)
\* the reads of ua_parser.parser a thread makes
MaxAccesses == 2

\* the times `del ua_parser.parser` runs
MaxDeletes == 1

Globals(p, lock) == [kind |-> "globals", parser |-> p, _lazy_globals_lock |-> lock]

\* a thread reading ua_parser.parser: where it stands, the instance it holds,
\* the instances deleted when the read began, and (history) what its reads
\* returned, each with the instances deleted when it began
LazyThread(pc, p, began, got) == [pc |-> pc, p |-> p, began |-> began, got |-> got]

\* `if p := globals().get("parser")` without the test: always falsy
MemoizedNever(g) == FALSE

\* `if p := globals().get("parser")`: an instance is truthy
Memoized(g) == g.parser # Null

InitLazy ==
    /\ parser = BackfillRules
    /\ cache = Globals(Null, 0)
    /\ last = Did("init", "")
    /\ th = [t \in 1..NumThreads |-> LazyThread("idle", Null, {}, << >>)]
    /\ recent = << >>
    /\ written = {}
    /\ puts = 0

\* thread t evaluates ua_parser.parser: the module's dict holds the name, or
\* the lookup falls back to the module's __getattr__
Access(t) ==
    /\ th[t].pc = "idle" /\ Len(th[t].got) < MaxAccesses
    /\ IF cache.parser # Null
       THEN th' = [th EXCEPT ![t].got = Append(@, [p |-> cache.parser, began |-> written])]
       ELSE th' = [th EXCEPT ![t].pc = "getattr", ![t].began = written]
    /\ last' = Did("access", IF cache.parser # Null THEN "global" ELSE "getattr")
    /\ UNCHANGED <<parser, cache, recent, written, puts>>

\* `with _lazy_globals_lock:`
Acquire(t) ==
    /\ th[t].pc = "getattr" /\ cache._lazy_globals_lock = 0
    /\ cache' = [cache EXCEPT !._lazy_globals_lock = t]
    /\ th' = [th EXCEPT ![t].pc = "locked"]
    /\ last' = Did("acquire", "")
    /\ UNCHANGED <<parser, recent, written, puts>>

\* `if p := globals().get("parser"): return cast(Parser, p)`
Check(t) ==
    /\ th[t].pc = "locked"
    /\ IF Memoized(cache)
       THEN /\ th' = [th EXCEPT ![t].pc = "return", ![t].p = cache.parser]
            /\ last' = Did("check", "memoized")
       ELSE /\ th' = [th EXCEPT ![t].pc = "load"]
            /\ last' = Did("check", "unset")
    /\ UNCHANGED <<parser, cache, recent, written, puts>>

\* `Parser.from_matchers(matchers)`: a new instance
Construct(t) ==
    /\ th[t].pc = "load"
    /\ recent' = Append(recent, Len(recent) + 1)
    /\ th' = [th EXCEPT ![t].pc = "assign", ![t].p = Len(recent) + 1]
    /\ last' = Did("construct", "")
    /\ UNCHANGED <<parser, cache, written, puts>>

\* `parser = ...` on the global
Assign(t) ==
    /\ th[t].pc = "assign"
    /\ cache' = [cache EXCEPT !.parser = th[t].p]
    /\ th' = [th EXCEPT ![t].pc = "return"]
    /\ last' = Did("assign", "")
    /\ UNCHANGED <<parser, recent, written, puts>>

\* `return`, leaving the with block
Return(t) ==
    /\ th[t].pc = "return"
    /\ cache' = [cache EXCEPT !._lazy_globals_lock = 0]
    /\ th' = [th EXCEPT ![t] = LazyThread("idle", Null, {},
                                          Append(@.got, [p |-> @.p, began |-> @.began]))]
    /\ last' = Did("return", "")
    /\ UNCHANGED <<parser, recent, written, puts>>

\* `del ua_parser.parser`, the name being set
Delete(t) ==
    /\ th[t].pc = "idle" /\ cache.parser # Null
    /\ Cardinality(written) < MaxDeletes
    /\ cache' = [cache EXCEPT !.parser = Null]
    /\ written' = written \cup {cache.parser}
    /\ last' = Did("del", "")
    /\ UNCHANGED <<parser, th, recent, puts>>

NextLazy ==
    \E t \in 1..NumThreads :
        \/ Access(t) \/ Acquire(t) \/ Check(t) \/ Construct(t)
        \/ Assign(t) \/ Return(t) \/ Delete(t)

SpecLazy == InitLazy /\ [][NextLazy]_vars

(***************************************************************************)
(* The legacy parser (user_agent_parser.py).  Here `cache` is _PARSE_CACHE: *)
(* a dict from user agent to entry, an entry a dict with the keys "string", *)
(* "user_agent", "os" and "device" that have been filled in.               *)
(***************************************************************************)
\* 200 in the source; scaled down so that the cache fills up
MAX_CACHE_SIZE == 2

\* an argument of the legacy functions: a str, or something else
Str(ua) == [isstr |-> TRUE, v |-> ua]

NotStr == [isstr |-> FALSE, v |-> << >>]

LegacyArgs == {Str(UAList[i]) : i \in 1..Len(UAList)} \cup {NotStr}

\* the rule lists USER_AGENT_PARSERS, OS_PARSERS, DEVICE_PARSERS
LegacyParsers(key) ==
    CASE key = "user_agent" -> <<ReB, ReA>>
      [] key = "os" -> <<ReA>>
      [] key = "device" -> <<ReA, ReB>>

\* _ParseUserAgent, _ParseOS, _ParseDevice: the family the first rule that
\* matches gives, "Other" if none does
RECURSIVE LegacyFamily(_, _)
LegacyFamily(parsers, ua) ==
    IF parsers = << >> THEN <<"O", "t", "h", "e", "r">>
    ELSE IF search(Head(parsers), ua) # None THEN search(Head(parsers), ua)[1][1][1]
    ELSE LegacyFamily(Tail(parsers), ua)

LegacyParse(key, ua) == [family |-> LegacyFamily(LegacyParsers(key), ua)]

\* _lookup without `if len(_PARSE_CACHE) >= MAX_CACHE_SIZE: _PARSE_CACHE.clear()`
_lookupNeverClears(self, arg) ==
    IF ~arg.isstr THEN [self |-> self, raised |-> "TypeError", path |-> "raise"]
    ELSE IF arg.v \in DOMAIN self THEN [self |-> self, raised |-> "", path |-> "hit"]
    ELSE [self |-> DictSet(self, arg.v, DictSet(EmptyDict, "string", arg.v)),
          raised |-> "", path |-> "miss"]

\* _lookup(ua) on _PARSE_CACHE = self: the cache it leaves, with the entry
\* under ua; an entry is never None
_lookup(self, arg) ==
    IF ~arg.isstr THEN [self |-> self, raised |-> "TypeError", path |-> "raise"]
    ELSE IF arg.v \in DOMAIN self THEN [self |-> self, raised |-> "", path |-> "hit"]
    ELSE IF Cardinality(DOMAIN self) >= MAX_CACHE_SIZE
    THEN [self |-> DictSet(EmptyDict, arg.v, DictSet(EmptyDict, "string", arg.v)),
          raised |-> "", path |-> "clear"]
    ELSE [self |-> DictSet(self, arg.v, DictSet(EmptyDict, "string", arg.v)),
          raised |-> "", path |-> "miss"]

\* `if "key" not in entry: entry["key"] = fn(ua)` on the entry under ua
Filled(self, ua, key) ==
    IF key \in DOMAIN self[ua] THEN self
    ELSE DictSet(self, ua, DictSet(self[ua], key, LegacyParse(key, ua)))

\* _cached(ua, key, fn): a parse result is a non-empty dict, hence truthy
_cached(self, arg, key) ==
    The({IF looked.raised # "" THEN looked
         ELSE [looked EXCEPT !.self = Filled(looked.self, arg.v, key)] :
            looked \in {_lookup(self, arg)}})

InitLegacy ==
    /\ parser = BackfillRules
    /\ cache = EmptyDict
    /\ last = Did("init", "")
    /\ th = Idle
    /\ recent = << >>
    /\ written = {}
    /\ puts = 0

\* Parse(user_agent_string)
Parse(arg) ==
    \E looked \in {_lookup(cache, arg)} :
    /\ cache' = IF looked.raised # "" THEN looked.self
                ELSE Filled(Filled(Filled(looked.self, arg.v, "user_agent"),
                                   arg.v, "os"), arg.v, "device")
    /\ last' = Did("Parse", looked.path)
    /\ UNCHANGED <<parser, th, recent, written, puts>>

\* ParseUserAgent(user_agent_string)
ParseUserAgent(arg) ==
    \E out \in {_cached(cache, arg, "user_agent")} :
    /\ cache' = out.self
    /\ last' = Did("ParseUserAgent", out.path)
    /\ UNCHANGED <<parser, th, recent, written, puts>>

\* ParseOS(user_agent_string)
ParseOS(arg) ==
    \E out \in {_cached(cache, arg, "os")} :
    /\ cache' = out.self
    /\ last' = Did("ParseOS", out.path)
    /\ UNCHANGED <<parser, th, recent, written, puts>>

\* ParseDevice(user_agent_string)
ParseDevice(arg) ==
    \E out \in {_cached(cache, arg, "device")} :
    /\ cache' = out.self
    /\ last' = Did("ParseDevice", out.path)
    /\ UNCHANGED <<parser, th, recent, written, puts>>

NextLegacy ==
    \E arg \in LegacyArgs :
        \/ Parse(arg) \/ ParseUserAgent(arg) \/ ParseOS(arg) \/ ParseDevice(arg)

SpecLegacy == InitLegacy /\ [][NextLegacy]_vars

(***************************************************************************)
(* utils.replacer on its own: every template and match of a bounded size.  *)
(***************************************************************************)
\* the longest template
MaxLen == 4

TemplateChars == {"$", "0", "1", "2", " ", "f"}

Templates == UNION {[1..n -> TemplateChars] : n \in 0..MaxLen}

\* the groups 1..re.groups of a match: none; one; one that did not
\* participate; an empty one and one of whitespace; two with spaces around
Matches ==
    {<< >>,
     <<Some(<<"a">>)>>,
     <<None>>,
     <<Some(<< >>), Some(<<" ">>)>>,
     <<Some(<<" ", "a">>), Some(<<"b", " ">>)>>}

InitReplacer ==
    /\ parser = BackfillRules
    /\ cache = Lru(0)
    /\ last = Did("init", "")
    /\ th = Idle
    /\ recent = << >>
    /\ written = {}
    /\ puts = 0

\* replacer(repl, m); the function keeps no state, so a behaviour makes one call
Replace(repl, m) ==
    /\ last.op = "init"
    /\ last' = [op |-> "replacer", repl |-> repl, m |-> m, ret |-> replacer(repl, m)]
    /\ UNCHANGED <<parser, cache, th, recent, written, puts>>

NextReplacer == \E repl \in Templates : \E m \in Matches : Replace(repl, m)

SpecReplacer == InitReplacer /\ [][NextReplacer]_vars

(***************************************************************************)
(* The global parser, read by threads while user code sets it: recent      *)
(* holds the instances constructed, by __getattr__ or by the user, and     *)
(* written the instances that user code has assigned to ua_parser.parser.  *)
(***************************************************************************)
\* the times user code assigns ua_parser.parser
MaxAssigns == 1

\* `ua_parser.parser = X`, X a parser the user has built: a store into the
\* module's dict, which takes no lock
UserAssign(t) ==
    /\ th[t].pc = "idle" /\ Cardinality(written) < MaxAssigns
    /\ recent' = Append(recent, Len(recent) + 1)
    /\ cache' = [cache EXCEPT !.parser = Len(recent) + 1]
    /\ written' = written \cup {Len(recent) + 1}
    /\ last' = Did("set", "")
    /\ UNCHANGED <<parser, th, puts>>

NextAssign ==
    \E t \in 1..NumThreads :
        \/ Access(t) \/ Acquire(t) \/ Check(t) \/ Construct(t)
        \/ Assign(t) \/ Return(t) \/ UserAssign(t)

SpecAssign == InitLazy /\ [][NextAssign]_vars

(***************************************************************************)
(* The S3Fifo on its own, its keys given as one of several str objects     *)
(* that are equal: `index.get(g) is g` tells them apart.                   *)
(***************************************************************************)
NumObjects == 2

\* the str objects a key is given as
KeyObjects == 1..NumObjects

InitGhost ==
    /\ parser = BackfillRules
    /\ cache \in {S3Fifo(n) : n \in 0..MaxSize}
    /\ last = Did("init", "")
    /\ th = Idle
    /\ recent = << >>
    /\ written = {}
    /\ puts = 0

NextGhost ==
    \/ \E key \in Keys : Get(key)
    \/ \E key \in Keys : \E o \in KeyObjects : Put(key, o, SieveValue(key))

SpecGhost == InitGhost /\ [][NextGhost]_vars

(***************************************************************************)
(* Properties of the caching resolver, stated over every call that can be  *)
(* made from each reachable state.                                         *)
(***************************************************************************)
\* the domains of an optional entry: none when there is no entry
DomainsOf(entry) == IF entry = None THEN {} ELSE entry[1].domains

\* an empty cache of the class and capacity of self
Fresh(self) ==
    IF self.kind = "Lru" THEN Lru(self.maxsize)
    ELSE IF self.kind = "S3Fifo" THEN S3Fifo(self.maxsize)
    ELSE Sieve(self.maxsize)

\* result agrees with what the resolver alone answers for ua on every domain of ds
Agrees(result, ua, ds) ==
    LET direct == Resolver_call(parser, ua, ds).r[1] IN
    \A x \in ds : Field(result, x) = Field(direct, x)

\* C1 as stated: for a cache of any class and of any maxsize >= 1, whenever
\* the wrapped resolver returns a result for (ua, d) the caching resolver
\* returns one too, with the same field value for every domain of d.
C1_SameAsUncached ==
    \A ua \in UAs : \A d \in Domain :
        (cache.maxsize >= 1 /\ Resolver_call(parser, ua, d).raised = "")
        => LET out == CachingResolver_call(parser, cache, ua, 1, d) IN
           /\ out.raised = ""
           /\ Agrees(out.ret[1], ua, d)

\* what remains of C1: every result the caching resolver does return has, for
\* every requested domain, the field value the wrapped resolver answers
ReturnedSameAsUncached ==
    \A ua \in UAs : \A d \in Domain :
        LET out == CachingResolver_call(parser, cache, ua, 1, d) IN
        out.raised = "" => Agrees(out.ret[1], ua, d)

\* C2: the basic resolver returns exactly the requested domains, and every
\* result the caching resolver returns has a domains set that contains the
\* requested one, on a hit, on a miss and on a backfill alike, whatever entry
\* the cache holds for ua.
C2_ReturnsRequestedDomains ==
    \A ua \in UAs : \A d \in Domain :
        /\ LET direct == Resolver_call(parser, ua, d) IN
           direct.raised = "" => direct.r[1].domains = d
        /\ LET out == CachingResolver_call(parser, cache, ua, 1, d) IN
           out.raised = "" => d \subseteq out.ret[1].domains

\* a call was answered from an entry that holds more than one domain
C2_Witness ==
    /\ last = Did("call", "hit")
    /\ \E ua \in UAs : Held(cache, ua) # None /\ Held(cache, ua)[1].domains = ALL
    /\ \E ua \in UAs : Held(cache, ua) # None
                       /\ Held(cache, ua)[1].domains \notin {{}, ALL}

\* C3: after a call (ua, d) returns, the cache holds for ua an entry whose
\* domains are those of the entry held before the call together with d, and
\* whose fields for the domains resolved before the call are unchanged.
C3_BackfillUpdatesEntry ==
    \A ua \in UAs : \A d \in Domain :
        LET before == Held(cache, ua)
            out == CachingResolver_call(parser, cache, ua, 1, d)
            after == Held(out.self, ua)
        IN out.raised = ""
           => /\ after # None
              /\ after[1].domains = DomainsOf(before) \cup d
              /\ \A x \in DomainsOf(before) : Field(after[1], x) = Field(before[1], x)

\* a backfill just completed an entry resolved in several calls
C3_Witness ==
    /\ last = Did("call", "backfill")
    /\ Held(cache, UAList[1]) # None
    /\ Held(cache, UAList[1])[1].domains = ALL
    /\ Held(cache, UAList[1])[1].device # None

C5_AsksOnlyMissing ==
    \A ua \in UAs : \A d \in Domain :
        LET before == Held(cache, ua)
            out == CachingResolver_call(parser, cache, ua, 1, d)
        IN IF before # None /\ d \subseteq before[1].domains
           THEN /\ out.asked = None
                /\ out.wrote = None
                /\ out.raised = ""
                /\ out.ret = before
           ELSE out.asked = Some(d \ DomainsOf(before))

\* a call was answered from the cache while another entry is still partial
C5_Witness ==
    /\ last = Did("call", "hit")
    /\ Held(cache, UAList[1]) # None
    /\ Held(cache, UAList[1])[1].domains = {OS}

(***************************************************************************)
(* Properties of the caches on their own.                                  *)
(***************************************************************************)
\* C8 as stated: for a cache of any class and of any maxsize >= 1, from any
\* state a sequence of gets and puts leads to, put(k, v) completes without
\* raising and a get(k) made right after it returns v.
C8_PutThenGet ==
    \A key \in Keys : \A value \in Values(key) :
        cache.maxsize >= 1
        => LET stored == Cache_setitem(cache, key, 1, value) IN
           /\ stored.raised = ""
           /\ Cache_getitem(stored.self, key).raised = ""
           /\ Cache_getitem(stored.self, key).ret = Some(value)

\* what remains of C8: a put that completes is seen by the get that follows
PutThenGetWhenStored ==
    \A key \in Keys : \A value \in Values(key) :
        LET stored == Cache_setitem(cache, key, 1, value) IN
        stored.raised = "" => Cache_getitem(stored.self, key).ret = Some(value)

\* C9: an S3Fifo of any maxsize N >= 0 never holds more than N live
\* entries: len(small) + len(main) <= N after any sequence of gets and puts.
C9_S3FifoWithinMaxsize ==
    cache.kind = "S3Fifo" => Len(cache.small) + Len(cache.main) <= cache.maxsize

\* a put into a full S3Fifo evicted an entry and left the cache full, with
\* entries in both queues
C9_Witness ==
    /\ cache.kind = "S3Fifo"
    /\ last = Did("put", "evict")
    /\ Len(cache.small) + Len(cache.main) = cache.maxsize
    /\ Len(cache.small) >= 1
    /\ Len(cache.main) >= 1

\* C10 as stated: a Sieve of any maxsize N >= 0 never holds more than N
\* entries after any sequence of gets and puts.
C10_SieveWithinMaxsize ==
    cache.kind = "Sieve" => Cardinality(DOMAIN cache.cache) <= cache.maxsize

\* what remains of C10: a Sieve of maxsize N >= 1 holds at most N entries,
\* all of them on its list
SieveWithinPositiveMaxsize ==
    (cache.kind = "Sieve" /\ cache.maxsize >= 1)
    => /\ Cardinality(DOMAIN cache.cache) <= cache.maxsize
       /\ Len(SieveList(cache.heap, cache.tail, << >>)) = Cardinality(DOMAIN cache.cache)

(***************************************************************************)
(* Properties of concurrent calls.                                         *)
(***************************************************************************)
\* C6 as stated: while the entry of ua stays in the cache, every step that
\* changes the value cached for ua leaves a domains set that contains the
\* one it replaces, also when several threads call for the same ua.
C6_DomainsNeverShrink ==
    [][\A ua \in UAs :
          (Held(cache, ua) # None /\ Held(cache', ua) # None)
          => DomainsOf(Held(cache, ua)) \subseteq DomainsOf(Held(cache', ua))]_vars

\* what remains of C6: the value a call puts for ua has the domains of the
\* entry that call's own get returned, and the requested ones
WritesExtendWhatWasRead ==
    [][\A t \in 1..NumThreads :
          (th[t].pc = "got" /\ th'[t].pc = "idle" /\ last'.path \in {"miss", "backfill"})
          => DomainsOf(th[t].entry) \cup th[t].domains
                \subseteq DomainsOf(Held(cache', th[t].ua))]_vars

\* r is a whole result for ua: its string is ua and every domain it says is
\* resolved has the field the resolver answers
WellBuilt(r, ua) ==
    /\ r.string = ua
    /\ Agrees(r, ua, r.domains)

\* C7: under any interleaving of concurrent calls on a shared cache, every
\* value a get observes for ua, and every value the cache holds for ua, is a
\* whole PartialResult whose string is ua and whose field, for each domain
\* set in its domains, is the resolver's answer for that domain on ua.
C7_ObservedValuesAreWhole ==
    /\ \A t \in 1..NumThreads :
          th[t].entry # None => WellBuilt(th[t].entry[1], th[t].ua)
    /\ \A ua \in UAs :
          Held(cache, ua) # None => WellBuilt(Held(cache, ua)[1], ua)

\* a get returned a partial entry to one thread while another thread, which
\* had looked the same user agent up, has replaced it since
C7_Witness ==
    \E t \in 1..NumThreads :
        /\ th[t].pc = "got"
        /\ th[t].entry # None
        /\ th[t].entry[1].domains # ALL
        /\ Held(cache, th[t].ua) # None
        /\ Held(cache, th[t].ua) # th[t].entry
        /\ last = Did("call", "backfill")

(***************************************************************************)
(* Properties of the Lru.                                                  *)
(***************************************************************************)
\* C11: an Lru of any maxsize N >= 0 holds at most N entries after any
\* sequence of gets and puts, whichever threads issue them.
C11_LruWithinMaxsize ==
    cache.kind = "Lru" => Len(cache.cache) <= cache.maxsize

\* a put into a full Lru evicted an entry and left the cache full
C11_Witness ==
    /\ cache.kind = "Lru"
    /\ cache.maxsize >= 2
    /\ last = Did("put", "evict")
    /\ Len(cache.cache) = cache.maxsize

Removed(self, key, value) ==
    LiveKeys(self) \ LiveKeys(Cache_setitem(self, key, 1, value).self)

\* C13 as stated, for the caches of maxsize >= 1: a put of a key that is not
\* live removes no live entry when fewer than maxsize are held and exactly
\* one when exactly maxsize are held; a put of a live key removes none.
C13_EvictsOneWhenFull ==
    \A key \in Keys : \A value \in Values(key) :
        cache.maxsize >= 1
        => IF key \in LiveKeys(cache) \/ Size(cache) < cache.maxsize
           THEN Removed(cache, key, value) = {}
           ELSE Size(cache) = cache.maxsize
                => Cardinality(Removed(cache, key, value)) = 1

\* what remains of C13: the same, for the puts that complete
EvictsOneWhenStored ==
    \A key \in Keys : \A value \in Values(key) :
        (cache.maxsize >= 1 /\ Cache_setitem(cache, key, 1, value).raised = "")
        => IF key \in LiveKeys(cache) \/ Size(cache) < cache.maxsize
           THEN Removed(cache, key, value) = {}
           ELSE /\ Size(cache) = cache.maxsize
                /\ Cardinality(Removed(cache, key, value)) = 1

(***************************************************************************)
(* The order in which the Lru evicts.                                      *)
(***************************************************************************)
\* the i-th of the keys that are put only to push the present entries out
FreshKey(i) == [j \in 1..i |-> "#"]

\* the keys of self, in the order in which puts of new keys evict them when
\* nothing else touches the cache
RECURSIVE EvictionOrder(_, _, _)
EvictionOrder(self, i, acc) ==
    IF LiveKeys(self) \cap Keys = {} \/ i > 2 * self.maxsize THEN acc
    ELSE LET out == Lru_setitem(self, FreshKey(i),
                                PartialResult({}, None, None, None, FreshKey(i))).self
             gone == LiveKeys(self) \ LiveKeys(out)
         IN EvictionOrder(out, i + 1,
                          IF gone = {} THEN acc
                          ELSE Append(acc, CHOOSE k \in gone : TRUE))

\* the key of present whose latest insertion or get hit is the oldest
Oldest(present) ==
    recent[CHOOSE i \in 1..Len(recent) :
              /\ recent[i] \in present
              /\ \A j \in 1..(i - 1) : recent[j] \notin present]

\* C14: when a put of a new key finds the Lru full, the entry removed is the
\* one whose latest get hit or insertion is the oldest among the entries
\* present; after a get hit on a key, that key is the last of the entries
\* present to be evicted.
C14_EvictsLeastRecentlyUsed ==
    /\ \A key \in Keys \ LiveKeys(cache) : \A value \in Values(key) :
          (cache.maxsize >= 1 /\ Len(cache.cache) >= cache.maxsize)
          => LiveKeys(Lru_setitem(cache, key, value).self)
                = (LiveKeys(cache) \ {Oldest(LiveKeys(cache))}) \cup {key}
    /\ \A key \in LiveKeys(cache) :
          LET order == EvictionOrder(Lru_getitem(cache, key).self, 1, << >>) IN
          /\ Len(order) = Len(cache.cache)
          /\ order[Len(order)] = key

\* a put into a full Lru removed the entry inserted last, because a get had
\* hit the entry inserted before it
C14_Witness ==
    /\ last = Did("put", "evict")
    /\ Len(recent) = 3
    /\ LiveKeys(cache) = {recent[2], recent[3]}
    /\ recent = <<UAList[2], UAList[1], UAList[3]>>

\* C15 as stated: put(k, v') on a key already present replaces the value and
\* makes k the most recently used: of the keys present, k is the last to be
\* evicted when nothing touches the cache afterwards.
C15_OverwriteMovesToMRU ==
    \A key \in LiveKeys(cache) : \A value \in Values(key) :
        LET out == Lru_setitem(cache, key, value).self
            order == EvictionOrder(out, 1, << >>)
        IN /\ Held(out, key) = Some(value)
           /\ order[Len(order)] = key

\* what remains of C15: the put replaces the value and leaves the order of
\* the entries as it was
OverwriteKeepsPlace ==
    \A key \in LiveKeys(cache) : \A value \in Values(key) :
        LET out == Lru_setitem(cache, key, value).self IN
        /\ Held(out, key) = Some(value)
        /\ EvictionOrder(out, 1, << >>) = EvictionOrder(cache, 1, << >>)

(***************************************************************************)
(* Where S3Fifo places a new entry.                                        *)
(***************************************************************************)
\* C16: when a put that completes creates a new entry, the entry goes to the
\* front of main with freq 0 and not into small if the index holds a ghost
\* marker for the key at that point (after the put has made room), and to the
\* front of small and not into main otherwise.
C16_GhostGoesToMain ==
    cache.kind = "S3Fifo" =>
    \A key \in Keys : \A value \in Values(key) :
        LET room == S3MakeRoom(cache)
            out == S3Fifo_setitem(cache, key, 1, value)
            new == out.self
        IN (~S3IsLive(cache, key) /\ out.raised = "")
           => /\ S3IsLive(new, key)
              /\ new.heap[new.index[key].ref].freq = 0
              /\ IF S3IsGhost(room.self, key)
                 THEN /\ new.main # << >>
                      /\ new.main[1] = new.index[key].ref
                      /\ new.small = room.self.small
                      /\ Tail(new.main) = room.self.main
                 ELSE /\ new.small # << >>
                      /\ new.small[1] = new.index[key].ref
                      /\ new.main = room.self.main
                      /\ Tail(new.small) = room.self.small

\* a put has evicted, and the index holds a ghost that the next put of its
\* key will find after making room
C16_Witness ==
    /\ cache.kind = "S3Fifo"
    /\ last = Did("put", "evict")
    /\ \E key \in Keys :
          /\ S3IsGhost(cache, key)
          /\ S3MakeRoom(cache).raised = ""
          /\ S3IsGhost(S3MakeRoom(cache).self, key)
          /\ Size(cache) = cache.maxsize

\* a ghost that the index holds before a put can be dropped while that put
\* makes room, and its key then goes to small
GhostDroppedByItsPut ==
    /\ cache.kind = "S3Fifo"
    /\ \E key \in Keys :
          /\ S3IsGhost(cache, key)
          /\ S3MakeRoom(cache).raised = ""
          /\ ~S3IsGhost(S3MakeRoom(cache).self, key)

\* the keys of the entries of a queue, and those among them with freq 0
InQueue(self, queue) == {self.heap[queue[i]].key : i \in 1..Len(queue)}

Unhit(self, queue) ==
    {self.heap[queue[i]].key : i \in {j \in 1..Len(queue) : self.heap[queue[j]].freq = 0}}

\* C17 as stated: an entry of small that no get has hit (its freq is 0) is
\* never moved to main: a step leaves it in small, or takes it out of the
\* live set and makes its key a ghost.  An entry enters main only from small
\* with freq > 0, or by the put of a key that is a ghost.
C17_OneHitWondersSkipMain ==
    [][cache.kind = "S3Fifo" =>
          /\ \A key \in Unhit(cache, cache.small) :
                /\ key \notin InQueue(cache', cache'.main)
                /\ \/ key \in InQueue(cache', cache'.small)
                   \/ ~S3IsLive(cache', key) /\ S3IsGhost(cache', key)
          /\ \A key \in InQueue(cache', cache'.main) \ InQueue(cache, cache.main) :
                \/ key \in InQueue(cache, cache.small) \ Unhit(cache, cache.small)
                \/ S3IsGhost(cache, key)]_vars

\* what remains of C17: the entry never reaches main and leaves the live set
\* when it leaves small; whether its key is then a ghost is left open, the
\* ghost queue may still hold the same key object from an earlier demotion,
\* and popping that one drops the new marker from the index
OneHitWondersLeave ==
    [][cache.kind = "S3Fifo" =>
          /\ \A key \in Unhit(cache, cache.small) :
                /\ key \notin InQueue(cache', cache'.main)
                /\ \/ key \in InQueue(cache', cache'.small)
                   \/ ~S3IsLive(cache', key)
          /\ \A key \in InQueue(cache', cache'.main) \ InQueue(cache, cache.main) :
                \/ key \in InQueue(cache, cache.small) \ Unhit(cache, cache.small)
                \/ S3IsGhost(cache, key)]_vars

(***************************************************************************)
(* The scan of Sieve.                                                      *)
(***************************************************************************)
\* the nodes of the list from tail to head
Nodes(self) == SieveList(self.heap, self.tail, << >>)

\* the place of the hand in Nodes, 1 (the tail) when there is no hand
HandAt(self) ==
    IF self.hand = Null THEN 1
    ELSE CHOOSE i \in 1..Len(Nodes(self)) : Nodes(self)[i] = self.hand

\* the nodes in the order in which a scan meets them: from the hand to head,
\* then from tail to the node before the hand
ScanOrder(self) ==
    SubSeq(Nodes(self), HandAt(self), Len(Nodes(self)))
        \o SubSeq(Nodes(self), 1, HandAt(self) - 1)

\* the nodes a scan passes: the visited ones it meets before an unvisited one
Passed(self) ==
    {ScanOrder(self)[i] : i \in {j \in 1..Len(ScanOrder(self)) :
        \A l \in 1..j : self.heap[ScanOrder(self)[l]].visited}}

\* the nodes that _evict takes out of the cache
Victims(self) ==
    {self.cache[k] : k \in DOMAIN self.cache \ DOMAIN Sieve_evict(self).self.cache}

\* C18: an eviction removes one entry; whenever an entry of the cache is
\* unvisited, the one removed was unvisited when the eviction started; the
\* visited entries the scan passes have their flag cleared, the other flags
\* are left as they were.
C18_VisitedIsSpared ==
    (cache.kind = "Sieve" /\ Size(cache) >= 1) =>
        LET out == Sieve_evict(cache).self IN
        /\ Cardinality(Victims(cache)) = 1
        /\ (\E n \in Range(Nodes(cache)) : ~cache.heap[n].visited)
              => \A v \in Victims(cache) : ~cache.heap[v].visited
        /\ \A n \in Range(Nodes(cache)) :
              out.heap[n].visited = (cache.heap[n].visited /\ n \notin Passed(cache))

\* Sieve(3): after puts of three keys and a get of the first, the put of a
\* fourth has passed the first, cleared its flag, and removed the second
C18_Witness ==
    /\ cache.kind = "Sieve"
    /\ last = Did("put", "evict")
    /\ Size(cache) = 3
    /\ cache.heap[cache.tail].key = UAList[1]
    /\ ~cache.heap[cache.tail].visited
    /\ UAList[2] \notin LiveKeys(cache)
    /\ cache.hand # Null /\ cache.hand # cache.tail

\* the key of node id, None for no node
KeyOf(self, id) == IF id = Null THEN None ELSE Some(self.heap[id].key)

\* C19: the hand persists between evictions.  An eviction whose victim has a
\* successor leaves the hand on that successor; gets and puts that evict
\* nothing leave the hand on its node; and an eviction that finds a hand
\* starts there: its victim is the first unvisited node from the hand to
\* head, and only when there is none does the scan reach the nodes between
\* tail and the hand.
C19_HandPersists ==
    /\ [](cache.kind = "Sieve" /\ Size(cache) >= 1 =>
            LET out == Sieve_evict(cache).self
                fromHand == SubSeq(Nodes(cache), HandAt(cache), Len(Nodes(cache)))
                before == SubSeq(Nodes(cache), 1, HandAt(cache) - 1)
            IN /\ \A v \in Victims(cache) :
                     cache.heap[v].next # Null => out.hand = cache.heap[v].next
               /\ (cache.hand # Null)
                     => /\ cache.hand \in Range(Nodes(cache))
                        /\ (\E i \in 1..Len(fromHand) : ~cache.heap[fromHand[i]].visited)
                              => /\ Victims(cache) =
                                      {fromHand[CHOOSE i \in 1..Len(fromHand) :
                                          /\ ~cache.heap[fromHand[i]].visited
                                          /\ \A j \in 1..(i - 1) :
                                                cache.heap[fromHand[j]].visited]}
                                 /\ \A n \in Range(before) :
                                       /\ n \notin Victims(cache)
                                       /\ out.heap[n].visited = cache.heap[n].visited)
    /\ [][(cache.kind = "Sieve" /\ LiveKeys(cache) \subseteq LiveKeys(cache'))
             => KeyOf(cache', cache'.hand) = KeyOf(cache, cache.hand)]_vars

\* Sieve(3) after puts of three keys, a get of the first and puts of a fourth
\* key and of the second again: the second eviction has started at the hand
\* and removed the third key, the first one, unvisited at the tail, is still
\* there, and the hand stands on the successor of the victim
C19_Witness ==
    /\ cache.kind = "Sieve"
    /\ last = Did("put", "evict")
    /\ Size(cache) = 3
    /\ cache.heap[cache.tail].key = UAList[1]
    /\ ~cache.heap[cache.tail].visited
    /\ UAList[3] \notin LiveKeys(cache)
    /\ cache.heap[cache.head].key = UAList[2]
    /\ cache.hand # Null /\ cache.hand # cache.tail
    /\ cache.heap[cache.hand].key = UAList[4]
    /\ cache.prev = cache.tail

(***************************************************************************)
(* Gets that take no lock, against puts that hold it.                      *)
(***************************************************************************)
\* what the lock protects: the index, the queues and the list, entries
\* named by their keys
Shape(self) ==
    IF self.kind = "S3Fifo"
    THEN [index |-> [k \in DOMAIN self.index |-> self.index[k].t],
          small |-> [i \in 1..Len(self.small) |-> self.heap[self.small[i]].key],
          main |-> [i \in 1..Len(self.main) |-> self.heap[self.main[i]].key],
          ghost |-> self.ghost]
    ELSE [index |-> DOMAIN self.cache,
          list |-> [i \in 1..Len(Nodes(self)) |-> self.heap[Nodes(self)[i]].key],
          head |-> KeyOf(self, self.head), tail |-> KeyOf(self, self.tail),
          hand |-> KeyOf(self, self.hand), prev |-> KeyOf(self, self.prev)]

\* C20: whatever the interleaving of the steps of gets, which take no lock,
\* with the steps of puts and their evictions: the freq of every entry is
\* within 0..3; a step that changes the index, a queue or the list is a step
\* of the thread holding the lock, and of no other; what a get returns is
\* None or a value that a put has stored under the key asked for.
C20_UnlockedGetsAreBenign ==
    /\ [](cache.kind = "S3Fifo" =>
             \A id \in DOMAIN cache.heap : cache.heap[id].freq \in 0..3)
    /\ [](\A t \in DOMAIN th :
             (th[t].pc = "got" /\ th[t].value # None)
                => <<th[t].key, th[t].value[1]>> \in written)
    /\ [][Shape(cache') # Shape(cache)
             => /\ cache.lock \in DOMAIN th
                /\ \A t \in DOMAIN th :
                      (th'[t].pc # th[t].pc) = (t = cache.lock)]_vars

\* a get and an eviction from main stand between their read and their write
\* of the freq of the same entry, which the get found at 3
C20_Witness ==
    /\ cache.kind = "S3Fifo"
    /\ \E t, u \in DOMAIN th :
          /\ th[t].pc = "g_inc" /\ th[u].pc = "s_main_w"
          /\ th[t].e = th[u].e
          /\ th[t].f = 3

(***************************************************************************)
(* Properties of the resolvers.                                            *)
(***************************************************************************)
\* every pattern of the rule set
Patterns(self) ==
    {self.user_agent_matchers[i].pattern : i \in 1..Len(self.user_agent_matchers)}
    \cup {self.os_matchers[i].pattern : i \in 1..Len(self.os_matchers)}
    \cup {self.device_matchers[i].pattern : i \in 1..Len(self.device_matchers)}

\* C21: for every rule set, user agent and requested domains, and whatever
\* the order in which the set engine reports the matching indices, the
\* prefiltered (re2) resolver returns (or raises) what the linear resolver does
C21_PrefilteredSameAsLinear ==
    last.op = "resolve" => last.re2 = last.linear

\* what does hold: the two resolvers agree on the rule sets whose patterns
\* fa_simplifier leaves as they are
PrefilteredSameWhenUnsimplified ==
    (last.op = "resolve" /\ \A p \in Patterns(parser) : fa_simplifier(p) = p)
        => last.re2 = last.linear

\* the rule list of a domain
MatchersOf(self, d) ==
    CASE d = USER_AGENT -> self.user_agent_matchers
      [] d = OS -> self.os_matchers
      [] d = DEVICE -> self.device_matchers

\* the indices of the matchers whose apply yields a value for ua
Yielding(matchers, ua) ==
    {i \in 1..Len(matchers) : Matcher_call(matchers[i], ua).v # None}

\* C22: a call of the linear resolver that returns gives, for each requested
\* domain, what the first matcher in list order whose apply yields non-None
\* yields, None if no matcher does; the returned domains are the requested
\* ones, the string is the input, and every unrequested domain's field is None
C22_LinearTakesFirstMatcher ==
    (last.op = "resolve" /\ last.linear.raised = "") =>
        LET r == last.linear.r[1] IN
        /\ r.domains = last.domains
        /\ r.string = last.ua
        /\ \A d \in ALL \ last.domains : Field(r, d) = None
        /\ \A d \in last.domains :
              LET ms == MatchersOf(parser, d)
                  hits == Yielding(ms, last.ua)
              IN IF hits = {} THEN Field(r, d) = None
                 ELSE \E i \in hits :
                        /\ \A j \in hits : i <= j
                        /\ Field(r, d) = Matcher_call(ms[i], last.ua).v

\* a call that returned, with an unrequested domain and a requested one where
\* two matchers yield different values
C22_Witness ==
    /\ last.op = "resolve" /\ last.linear.raised = ""
    /\ last.domains # ALL
    /\ \E d \in last.domains :
          LET ms == MatchersOf(parser, d) IN
          \E i, j \in Yielding(ms, last.ua) :
              Matcher_call(ms[i], last.ua) # Matcher_call(ms[j], last.ua)

\* C25: applying a matcher never raises because a capture group is absent:
\* the only error is the ValueError of an OS or device matcher whose regex
\* matched and whose family resolves to None
C25_AbsentGroupNeverRaises ==
    last.op = "resolve" =>
        \A d \in ALL : \A i \in 1..Len(MatchersOf(parser, d)) :
            LET matcher == MatchersOf(parser, d)[i]
                out == Matcher_call(matcher, last.ua)
            IN out.raised # "" =>
                  /\ out.raised = "ValueError"
                  /\ d \in {OS, DEVICE}
                  /\ search(matcher.pattern, last.ua) # None
                  /\ replacer(matcher.family, search(matcher.pattern, last.ua)[1]) = None

\* what does hold: the claim for the OS and device matchers, whose fields go
\* through utils.get
AbsentGroupNeverRaisesInOSAndDevice ==
    last.op = "resolve" =>
        \A d \in {OS, DEVICE} : \A i \in 1..Len(MatchersOf(parser, d)) :
            LET matcher == MatchersOf(parser, d)[i]
                out == Matcher_call(matcher, last.ua)
            IN out.raised # "" =>
                  /\ out.raised = "ValueError"
                  /\ search(matcher.pattern, last.ua) # None
                  /\ replacer(matcher.family, search(matcher.pattern, last.ua)[1]) = None

(***************************************************************************)
(* Properties of utils.replacer.                                           *)
(***************************************************************************)
\* position i of the template starts a reference $N
IsRef(repl, i) == repl[i] = "$" /\ i < Len(repl) /\ IsDigit(repl[i + 1])

\* what position i of the template contributes: the text of group N (nothing
\* if the group is absent, did not participate or is empty) where a
\* reference starts, nothing for the digit of a reference, else the character
Piece(repl, m, i) ==
    IF IsRef(repl, i)
    THEN LET n == DigitValue(repl[i + 1]) IN
         IF n \in 1..Len(m) /\ m[n] # None THEN m[n][1] ELSE << >>
    ELSE IF i > 1 /\ IsRef(repl, i - 1) THEN << >>
    ELSE <<repl[i]>>

\* the contributions of positions i..Len(repl), in order
RECURSIVE Substituted(_, _, _)
Substituted(repl, m, i) ==
    IF i > Len(repl) THEN << >>
    ELSE Piece(repl, m, i) \o Substituted(repl, m, i + 1)

\* s without its leading and trailing whitespace
Stripped(s) ==
    LET inked == {i \in 1..Len(s) : s[i] \notin Whitespace} IN
    IF inked = {} THEN << >>
    ELSE SubSeq(s, CHOOSE i \in inked : \A j \in inked : i <= j,
                   CHOOSE i \in inked : \A j \in inked : j <= i)

\* C29: replacer returns None for an empty template; otherwise it replaces
\* every $N by group N if that group exists and is non-empty, else by the
\* empty string, strips the surrounding whitespace, and returns None if
\* nothing is left, else the stripped string
C29_ReplacerSubstitutesAndStrips ==
    last.op = "replacer" =>
        IF last.repl = << >> THEN last.ret = None
        ELSE LET s == Stripped(Substituted(last.repl, last.m, 1)) IN
             last.ret = IF s = << >> THEN None ELSE Some(s)

\* a call that returned a string, for a template with a reference to a group
\* that holds text, one to a group that is missing, and whitespace to strip
C29_Witness ==
    /\ last.op = "replacer" /\ last.ret # None
    /\ \E i \in 1..Len(last.repl) :
          IsRef(last.repl, i) /\ Piece(last.repl, last.m, i) # << >>
    /\ \E i \in 1..Len(last.repl) :
          IsRef(last.repl, i) /\ DigitValue(last.repl[i + 1]) \notin 1..Len(last.m)
    /\ Len(last.ret[1]) < Len(Substituted(last.repl, last.m, 1))

(***************************************************************************)
(* Properties of complete() and Parser.parse.                              *)
(***************************************************************************)
\* the partial results at hand in a state: the entries the cache holds and
\* what a call of the caching resolver returns
AtHand ==
    {Held(cache, ua)[1] : ua \in {k \in UAs : Held(cache, k) # None}}
    \cup {CachingResolver_call(parser, cache, ua, 1, domains).ret[1] :
            ua \in {UAList[1]},
            domains \in {d \in Domain :
                CachingResolver_call(parser, cache, UAList[1], 1, d).raised = ""}}

\* C23: complete() raises exactly when domains differs from ALL, and
\* otherwise returns a result with the same user_agent, os, device and
\* string; so Parser.parse(ua), which completes what the resolver returns
\* for ALL, never raises that error
C23_CompleteRaisesIffPartial ==
    /\ \A r \in AtHand :
          /\ complete(r).raised # "" <=> r.domains # ALL
          /\ r.domains # ALL => complete(r).raised = "ValueError"
          /\ r.domains = ALL =>
                complete(r).v = Some(ParseResult(r.user_agent, r.os, r.device, r.string))
    /\ \A ua \in UAs :
          LET out == CachingResolver_call(parser, cache, ua, 1, ALL)
              res == Parser_parse(parser, cache, ua, 1)
          IN /\ res.raised = out.raised
             /\ res.raised = "" =>
                   res.v = Some(ParseResult(out.ret[1].user_agent, out.ret[1].os,
                                            out.ret[1].device, ua))

\* the cache holds for a user agent an entry that complete() rejects, and
\* parse of that user agent returns
C23_Witness ==
    \E ua \in UAs :
        /\ Held(cache, ua) # None
        /\ complete(Held(cache, ua)[1]).raised = "ValueError"
        /\ Parser_parse(parser, cache, ua, 1).raised = ""
        /\ Parser_parse(parser, cache, ua, 1).v # None

(***************************************************************************)
(* Properties of ill-formed rules.                                         *)
(***************************************************************************)
\* the first matcher of domain d whose regex matches ua has a family that
\* resolves to None
FamilyUnresolved(self, d, ua) ==
    LET ms == MatchersOf(self, d) IN
    \E i \in 1..Len(ms) :
        /\ search(ms[i].pattern, ua) # None
        /\ \A j \in 1..(i - 1) : search(ms[j].pattern, ua) = None
        /\ replacer(ms[i].family, search(ms[i].pattern, ua)[1]) = None

\* the call CachingResolver(parser, cache)(ua, domains) has to resolve an OS
\* or device domain whose first matching rule has an unresolved family
HitsUnresolved(ua, domains) ==
    /\ ~IsHit(Held(cache, ua), domains)
    /\ \E d \in Needed(Held(cache, ua), domains) \cap {OS, DEVICE} :
          FamilyUnresolved(parser, d, ua)

\* C24: when the first OS or device matcher whose regex matches has a family
\* that resolves to None, the ValueError reaches the caller of the resolver
\* and of the caching resolver, and the call writes nothing: the cache holds
\* for every user agent the entry (or none) it held before
C24_ErrorPropagatesUncached ==
    [][\A ua \in UAs : \A domains \in Domain :
          (HitsUnresolved(ua, domains) /\ Call(ua, 1, domains)) =>
              /\ Resolver_call(parser, ua, Needed(Held(cache, ua), domains)).raised
                    = "ValueError"
              /\ CachingResolver_call(parser, cache, ua, 1, domains).raised = "ValueError"
              /\ CachingResolver_call(parser, cache, ua, 1, domains).wrote = None
              /\ last'.path = "raise"
              /\ LiveKeys(cache') = LiveKeys(cache)
              /\ \A k \in UAs : Held(cache', k) = Held(cache, k)]_vars

\* the cache holds a partial entry for a user agent, and the call that
\* would backfill it has just raised
C24_Witness ==
    /\ last = Did("call", "raise")
    /\ \E ua \in UAs :
          /\ Held(cache, ua) # None
          /\ HitsUnresolved(ua, ALL)

(***************************************************************************)
(* The frame of a get.                                                     *)
(***************************************************************************)
\* what a get of key may change in an Lru: the order of the entries
LruGetFrame(before, after, key) ==
    /\ [after EXCEPT !.cache = before.cache] = before
    /\ Len(after.cache) = Len(before.cache)
    /\ Range(after.cache) = Range(before.cache)
    /\ \A i \in 1..Len(before.cache) :
          before.cache[i].key # key =>
              \E j \in 1..i : after.cache[j] = before.cache[i]

\* what a get of key may change in an S3Fifo: the freq of the entry hit
S3GetFrame(before, after, key) ==
    /\ [after EXCEPT !.heap = before.heap] = before
    /\ DOMAIN after.heap = DOMAIN before.heap
    /\ \A id \in DOMAIN before.heap :
          /\ [after.heap[id] EXCEPT !.freq = before.heap[id].freq] = before.heap[id]
          /\ after.heap[id].freq # before.heap[id].freq =>
                S3IsLive(before, key) /\ before.index[key].ref = id

\* what a get of key may change in a Sieve: the visited flag of the node hit
SieveGetFrame(before, after, key) ==
    /\ [after EXCEPT !.heap = before.heap] = before
    /\ DOMAIN after.heap = DOMAIN before.heap
    /\ \A id \in DOMAIN before.heap :
          /\ [after.heap[id] EXCEPT !.visited = before.heap[id].visited]
                = before.heap[id]
          /\ after.heap[id].visited # before.heap[id].visited =>
                key \in DOMAIN before.cache /\ before.cache[key] = id

\* C28: a get, hit or miss, leaves the set of live keys and the value held
\* under every key as they were; it changes at most the recency order (Lru),
\* the freq of the entry hit (S3Fifo) or the visited flag of the entry hit
\* (Sieve), and a miss changes nothing
C28_GetKeepsKeysAndValues ==
    [][\A key \in Keys : Get(key) =>
          /\ LiveKeys(cache') = LiveKeys(cache)
          /\ \A k \in Keys : Held(cache', k) = Held(cache, k)
          /\ Held(cache, key) = None => cache' = cache
          /\ CASE cache.kind = "Lru" -> LruGetFrame(cache, cache', key)
                [] cache.kind = "S3Fifo" -> S3GetFrame(cache, cache', key)
                [] cache.kind = "Sieve" -> SieveGetFrame(cache, cache', key)]_vars

\* a get has just hit in an S3Fifo that holds two entries, one of them with
\* a freq that a get has raised
C28_Witness ==
    /\ last = Did("get", "hit")
    /\ cache.kind = "S3Fifo"
    /\ Size(cache) = 2
    /\ \E id \in DOMAIN cache.heap : cache.heap[id].freq > 0

(***************************************************************************)
(* Properties of Local.                                                    *)
(***************************************************************************)
\* C27: within one thread every get and put goes to one inner cache, made by
\* a single factory call on the thread's first use, and a get never returns
\* an entry that another thread put
C27_OneCachePerThread ==
    /\ \A t \in 1..NumThreads :
          Cardinality(th[t].used) <= 1 /\ th[t].made = Cardinality(th[t].used)
    /\ (last.op = "get" /\ last.path = "hit") => written[<<last.c, last.key>>] = last.t

\* what does hold: the claim for the threads that have only run in the
\* context they started in, as long as no thread has run in a copy of it
OneCachePerThreadContext ==
    (\A t \in 1..NumThreads : ~th[t].entered) => C27_OneCachePerThread

(***************************************************************************)
(* Properties of the lazy global parser.                                   *)
(***************************************************************************)
\* what the reads of ua_parser.parser have returned so far
Obtained == UNION {Range(th[t].got) : t \in 1..NumThreads}

\* C26: under any interleaving of the threads' reads of ua_parser.parser,
\* while nothing has been deleted, one instance at most is constructed and
\* every read returns it; after a deletion, a read that began after it
\* returns an instance other than the deleted one, the reads that began
\* after the same deletions return one instance unless it was deleted in
\* its turn, and every deletion allows one more construction
C26_ConstructedOnce ==
    /\ Len(recent) <= Cardinality(written) + 1
    /\ written = {} => \A g \in Obtained : g.p = recent[1]
    /\ \A g \in Obtained : g.p \in Range(recent) /\ g.p \notin g.began
    /\ \A g, h \in Obtained :
          (g.began = h.began /\ g.p \notin written /\ h.p \notin written) => g.p = h.p

\* both threads have read the parser twice, the global was deleted in
\* between, and a thread holds both instances
C26_Witness ==
    /\ Len(recent) = 2 /\ written = {1}
    /\ \A t \in 1..NumThreads : Len(th[t].got) = MaxAccesses
    /\ \E t \in 1..NumThreads : {g.p : g \in Range(th[t].got)} = {1, 2}
    /\ \E t \in 1..NumThreads : \A g \in Range(th[t].got) : g.p = 2

(***************************************************************************)
(* Properties of the legacy parser's cache.                                *)
(***************************************************************************)
\* C30: after any sequence of Parse, ParseUserAgent, ParseOS and ParseDevice
\* calls _PARSE_CACHE holds at most MAX_CACHE_SIZE entries, and a call whose
\* lookup misses on a full cache clears the whole cache before it inserts the
\* new key: that key is then the only one
C30_LegacyCacheBounded ==
    /\ [](Cardinality(DOMAIN cache) <= MAX_CACHE_SIZE)
    /\ [][\A arg \in LegacyArgs :
            (/\ arg.isstr /\ arg.v \notin DOMAIN cache
             /\ Cardinality(DOMAIN cache) >= MAX_CACHE_SIZE
             /\ Parse(arg) \/ ParseUserAgent(arg) \/ ParseOS(arg) \/ ParseDevice(arg))
                => DOMAIN cache' = {arg.v} /\ last'.path = "clear"]_vars

\* a miss on a full cache has just cleared it: the new key is alone, with the
\* one domain ParseOS fills in
C30_Witness ==
    /\ last = Did("ParseOS", "clear")
    /\ Cardinality(DOMAIN cache) = 1
    /\ \A ua \in DOMAIN cache : DOMAIN cache[ua] = {"string", "os"}

(***************************************************************************)
(* The eviction loops of S3Fifo.                                           *)
(***************************************************************************)
\* the place in queue (front first) of the entry a rotation removes: the
\* pops go round from the tail, each taking one off freq, so the first to be
\* met with freq 0 is the entry of least freq that is nearest to the tail
VictimAt(self, queue) ==
    CHOOSE v \in 1..Len(queue) :
        /\ \A i \in 1..Len(queue) : self.heap[queue[v]].freq <= self.heap[queue[i]].freq
        /\ \A i \in (v + 1)..Len(queue) :
              self.heap[queue[v]].freq < self.heap[queue[i]].freq

\* C31: _evict_main on a non-empty main ends, without raising, having
\* removed one entry and the index slot of its key: each entry popped with
\* freq > 0 went back to the front with one off its freq, so the entry
\* removed is the first met with freq 0, the entries between it and the tail
\* are at the front in their order and have been popped once more than the
\* entries before it; small, ghost and the other index slots are untouched
C31_EvictMainRemovesOne ==
    (cache.kind = "S3Fifo" /\ cache.main # << >>) =>
        LET out == S3Fifo_evict_main(cache)
            new == out.self
            n == Len(cache.main)
            v == VictimAt(cache, cache.main)
            m == cache.heap[cache.main[v]].freq
        IN /\ out.raised = ""
           /\ new.main = SubSeq(cache.main, v + 1, n) \o SubSeq(cache.main, 1, v - 1)
           /\ new.index = DictDel(cache.index, cache.heap[cache.main[v]].key)
           /\ cache.heap[cache.main[v]].key \in DOMAIN cache.index
           /\ LiveKeys(new) = LiveKeys(cache) \ {cache.heap[cache.main[v]].key}
           /\ Size(new) = Size(cache) - 1
           /\ \A i \in 1..n :
                 new.heap[cache.main[i]].freq =
                     IF i > v THEN cache.heap[cache.main[i]].freq - m - 1
                     ELSE IF i < v THEN cache.heap[cache.main[i]].freq - m
                     ELSE 0
           /\ [new EXCEPT !.main = cache.main, !.index = cache.index,
                          !.heap = cache.heap] = cache
           /\ \A id \in DOMAIN cache.heap :
                 [new.heap[id] EXCEPT !.freq = cache.heap[id].freq] = cache.heap[id]

\* a full S3Fifo whose main holds two entries, the one at the tail with the
\* greater freq: _evict_main pops it, puts it back, and removes the other
C31_Witness ==
    /\ cache.kind = "S3Fifo"
    /\ Len(cache.main) = 2
    /\ Size(cache) >= cache.maxsize
    /\ cache.heap[cache.main[2]].freq > cache.heap[cache.main[1]].freq
    /\ VictimAt(cache, cache.main) = 1
    /\ S3Fifo_evict_main(cache).self.main = <<cache.main[2]>>

\* the place in small (front first) of the entry with freq 0 nearest to the
\* tail, 0 if every entry has been hit
DemotedAt(self) ==
    IF \A i \in 1..Len(self.small) : self.heap[self.small[i]].freq # 0 THEN 0
    ELSE CHOOSE z \in 1..Len(self.small) :
            /\ self.heap[self.small[z]].freq = 0
            /\ \A i \in (z + 1)..Len(self.small) : self.heap[self.small[i]].freq # 0

\* a put of a key that is not live finds the cache full and main below
\* main_target
SmallIsResized(self) ==
    /\ self.kind = "S3Fifo"
    /\ Len(self.small) + Len(self.main) >= self.maxsize
    /\ Len(self.main) < self.main_target

Without(seq, x) == LET Other(y) == y # x IN SelectSeq(seq, Other)

\* the place in ScanOrder of the first unvisited node, 1 (the node the scan
\* starts from) when every node is visited
FirstUnvisited(self) ==
    IF \A i \in 1..Len(ScanOrder(self)) : self.heap[ScanOrder(self)[i]].visited
    THEN 1
    ELSE CHOOSE i \in 1..Len(ScanOrder(self)) :
            /\ ~self.heap[ScanOrder(self)[i]].visited
            /\ \A j \in 1..(i - 1) : self.heap[ScanOrder(self)[j]].visited

\* C33: _evict removes the first unvisited node in the order of the scan
\* (from the hand, or from tail without a hand, to head and then from tail
\* on), or the node it starts from when every node is visited; the nodes it
\* passes lose their visited flag, the other nodes keep theirs and their
\* order; and it reads the flag of at most n + 1 nodes
C33_EvictTakesFirstUnvisited ==
    (cache.kind = "Sieve" /\ Size(cache) >= 1) =>
        LET out == Sieve_evict(cache)
            order == ScanOrder(cache)
            v == order[FirstUnvisited(cache)]
            allVisited == \A n \in Range(Nodes(cache)) : cache.heap[n].visited
            examined == SieveScanExamined(cache, order[1])
        IN /\ out.raised = ""
           /\ Range(order) = Range(Nodes(cache))
           /\ cache.hand = Null => order[1] = cache.tail
           /\ cache.hand # Null => order[1] = cache.hand
           /\ Victims(cache) = {v}
           /\ Nodes(out.self) = Without(Nodes(cache), v)
           /\ LiveKeys(out.self) = LiveKeys(cache) \ {cache.heap[v].key}
           /\ \A i \in 1..Len(order) : order[i] # v =>
                 out.self.heap[order[i]].visited =
                    (cache.heap[order[i]].visited
                        /\ ~(allVisited \/ i < FirstUnvisited(cache)))
           /\ examined = IF allVisited THEN Size(cache) + 1
                                      ELSE FirstUnvisited(cache)
           /\ examined <= Size(cache) + 1

\* Sieve(3), full, every node visited and the hand past the tail: the scan
\* goes from the hand to head, wraps to tail and removes the node of the hand
C33_Witness ==
    /\ cache.kind = "Sieve"
    /\ Size(cache) = 3
    /\ \A n \in Range(Nodes(cache)) : cache.heap[n].visited
    /\ cache.hand # Null /\ cache.hand # cache.tail
    /\ Victims(cache) = {cache.hand}
    /\ SieveScanExamined(cache, cache.hand) = 4

\* C35: a get on an S3Fifo whose index holds a live entry for the key
\* returns the value of that entry and makes its freq min(freq + 1, 3),
\* nothing else changing; a get of a key that the index holds as a ghost
\* marker, or not at all, returns None and leaves the cache as it is
C35_S3GetBumpsFreq ==
    /\ [](cache.kind = "S3Fifo" =>
            \A key \in Keys :
                LET out == S3Fifo_getitem(cache, key) IN
                /\ out.raised = ""
                /\ S3IsLive(cache, key) =>
                       out.ret = Some(cache.heap[cache.index[key].ref].value)
                /\ ~S3IsLive(cache, key) => out.ret = None /\ out.self = cache)
    /\ [][\A key \in Keys : (cache.kind = "S3Fifo" /\ Get(key)) =>
             IF S3IsLive(cache, key)
             THEN LET id == cache.index[key].ref IN
                  /\ cache'.heap[id].freq = Min(cache.heap[id].freq + 1, 3)
                  /\ cache'.heap[id].freq <= 3
                  /\ cache' = [cache EXCEPT !.heap[id].freq = cache'.heap[id].freq]
                  /\ last'.path = "hit"
             ELSE cache' = cache /\ last'.path = "miss"]_vars

\* a get has hit an entry of an S3Fifo whose freq was 3 already, while the
\* index holds a ghost marker for another key
C35_Witness ==
    /\ cache.kind = "S3Fifo"
    /\ last = Did("get", "hit")
    /\ \E key \in Keys : S3IsLive(cache, key)
                            /\ cache.heap[cache.index[key].ref].freq = 3
    /\ \E key \in Keys : S3IsGhost(cache, key)

\* the keys in the ghost queue
GhostKeys(self) == {self.ghost[i].key : i \in 1..Len(self.ghost)}

\* C36: after every put on an S3Fifo that returns, the ghost queue holds at
\* most main_target keys and every ghost marker of the index is of a key in
\* the ghost queue; and a put takes the index slot of a key away only if it
\* held a ghost marker or if the put took the key out of small and main: a
\* live key that falls off the ghost tail keeps its entry in the index
C36_GhostBounded ==
    /\ []((cache.kind = "S3Fifo" /\ last.op = "put" /\ last.path # "raise") =>
            /\ Len(cache.ghost) <= cache.main_target
            /\ \A key \in Keys : S3IsGhost(cache, key) => key \in GhostKeys(cache))
    /\ [][(cache.kind = "S3Fifo" /\ last'.op = "put") =>
             /\ \A key \in DOMAIN cache.index \ DOMAIN cache'.index :
                   S3IsGhost(cache, key) \/ key \in LiveKeys(cache) \ LiveKeys(cache')
             /\ \A key \in LiveKeys(cache) \cap LiveKeys(cache') :
                   S3IsLive(cache, key) => S3IsLive(cache', key)]_vars

\* a put that demoted an entry of small has just pushed off the ghost tail
\* a key that had become live again, and the key is still live
C36_Witness ==
    /\ cache.kind = "S3Fifo"
    /\ last = Did("put", "evict")
    /\ Len(cache.ghost) = cache.main_target
    /\ cache.main_target = 1
    /\ \E key \in Keys : /\ S3IsGhost(cache, key)
                          /\ cache.ghost[1].key = key
    /\ \E key \in Keys : /\ S3IsLive(cache, key)
                          /\ key \in InQueue(cache, cache.main)
                          /\ key \notin GhostKeys(cache)

\* how many times entry id stands in queue
Occurrences(queue, id) == Cardinality({i \in 1..Len(queue) : queue[i] = id})

\* C37: in an S3Fifo, after every put, the entry that the index holds for a
\* live key stands once in small and main taken together, every entry of
\* small and of main is what the index holds for its key, and so no key has
\* two entries and no key of an entry is indexed as a ghost
C37_IndexMatchesQueues ==
    cache.kind = "S3Fifo" =>
        /\ \A key \in DOMAIN cache.index :
              S3IsLive(cache, key) =>
                 /\ cache.index[key].ref \in DOMAIN cache.heap
                 /\ cache.heap[cache.index[key].ref].key = key
                 /\ Occurrences(cache.small, cache.index[key].ref)
                       + Occurrences(cache.main, cache.index[key].ref) = 1
        /\ \A i \in 1..Len(cache.small \o cache.main) :
              LET e == (cache.small \o cache.main)[i] IN
              /\ S3IsLive(cache, cache.heap[e].key)
              /\ ~S3IsGhost(cache, cache.heap[e].key)
              /\ cache.index[cache.heap[e].key].ref = e
        /\ Cardinality(LiveKeys(cache)) = Len(cache.small) + Len(cache.main)

\* a put has just overwritten the value of a key of a full S3Fifo that holds
\* an entry in small, one in main and a ghost marker
C37_Witness ==
    /\ cache.kind = "S3Fifo"
    /\ last = Did("put", "overwrite")
    /\ Len(cache.small) = 1 /\ Len(cache.main) = 1
    /\ \E key \in Keys : S3IsGhost(cache, key)

\* C38: in a Sieve, after every put, the nodes met from tail along next are
\* the nodes of the index, each once, the last of them is head and has no
\* next; tail and head are null exactly when the cache is empty; a hand that
\* is set is one of the nodes and prev is the node before it, null exactly
\* when the hand is the tail
C38_SieveListWellFormed ==
    cache.kind = "Sieve" =>
        LET nodes == Nodes(cache) IN
        /\ Range(nodes) = {cache.cache[key] : key \in DOMAIN cache.cache}
        /\ Len(nodes) = Cardinality(DOMAIN cache.cache)
        /\ \A key \in DOMAIN cache.cache : cache.heap[cache.cache[key]].key = key
        /\ \A i \in 1..(Len(nodes) - 1) : cache.heap[nodes[i]].next = nodes[i + 1]
        /\ (cache.tail = Null) = (DOMAIN cache.cache = {})
        /\ (cache.head = Null) = (DOMAIN cache.cache = {})
        /\ nodes # << >> =>
              /\ nodes[1] = cache.tail
              /\ nodes[Len(nodes)] = cache.head
              /\ cache.heap[cache.head].next = Null
        /\ cache.hand # Null =>
              /\ \E i \in 1..Len(nodes) : nodes[i] = cache.hand
              /\ (cache.prev = Null) = (cache.hand = cache.tail)
              /\ cache.hand # cache.tail =>
                    /\ cache.prev = nodes[HandAt(cache) - 1]
                    /\ cache.heap[cache.prev].next = cache.hand

\* Sieve(3) after a put that evicted the node after the tail: the hand
\* stands on the node that followed the victim, prev on the tail, and the
\* new node is the head
C38_Witness ==
    /\ cache.kind = "Sieve"
    /\ last = Did("put", "evict")
    /\ Size(cache) = 3
    /\ cache.hand # Null /\ cache.hand # cache.tail /\ cache.hand # cache.head
    /\ cache.prev = cache.tail
    /\ cache.heap[cache.tail].next = cache.hand

\* r belongs to the user agent string ua and holds a result in no domain
\* that its domains leave out
WellFormed(r, ua) ==
    /\ r.string = ua
    /\ r.user_agent # None => USER_AGENT \in r.domains
    /\ r.os # None => OS \in r.domains
    /\ r.device # None => DEVICE \in r.domains

\* C39: every PartialResult the cache of a CachingResolver holds has the key
\* it is held under as its string, and so has every one that a call returns
\* or stores the string the call was made with; each of them holds a
\* user_agent, an os or a device only if its domains include that domain
C39_StoredResultsWellFormed ==
    /\ \A key \in UAs : Held(cache, key) # None => WellFormed(Held(cache, key)[1], key)
    /\ \A ua \in UAs : \A domains \in Requests(ua) :
          LET out == CachingResolver_call(parser, cache, ua, 1, domains) IN
          /\ out.ret # None => WellFormed(out.ret[1], ua)
          /\ out.wrote # None =>
                /\ WellFormed(out.wrote[1], ua)
                /\ out.raised = "" => Held(out.self, ua) = out.wrote

\* a call has just filled in an entry that held a user agent only: the entry
\* now holds an os or a device as well, and no longer leaves out the domain
\* of what it holds
C39_Witness ==
    /\ last = Did("call", "backfill")
    /\ Held(cache, UAList[1]) # None
    /\ Held(cache, UAList[1])[1].user_agent # None
    /\ Held(cache, UAList[1])[1].os # None
    /\ Held(cache, UAList[1])[1].device = None
    /\ Held(cache, UAList[1])[1].domains = {USER_AGENT, OS}

(***************************************************************************)
(* Properties of the global parser under assignment.                       *)
(***************************************************************************)
\* the parser that user code assigned last
Assigned == CHOOSE x \in written : \A y \in written : y <= x

\* C40: once user code has assigned ua_parser.parser = X, the global holds
\* X and every read of ua_parser.parser that began after the assignment, by
\* user code or by parse, parse_user_agent, parse_os and parse_device,
\* yields X, whatever a lazy initialisation in another thread does
C40_AssignedParserStays ==
    written # {} =>
        /\ cache.parser = Assigned
        /\ \A t \in 1..NumThreads : \A g \in Range(th[t].got) :
              g.began = written => g.p = Assigned

\* what does hold: the assigned parser stays from a state on in which no
\* thread stands between the test of the global in __getattr__ and its
\* assignment; and a read only ever misses it by getting the instance that
\* __getattr__ built
AssignedParserStaysAfterInit ==
    /\ [][(written # {} /\ cache.parser = Assigned
             /\ \A t \in 1..NumThreads : th[t].pc \notin {"load", "assign"})
            => cache'.parser = Assigned]_vars
    /\ [](written # {} => cache.parser \in Range(recent))

(***************************************************************************)
(* Termination of put under concurrent gets.                               *)
(***************************************************************************)
\* C34: every put on an S3Fifo or a Sieve that has taken the lock completes
\* and releases it, while other threads keep calling get, provided the
\* thread of the put is scheduled fairly
C34_PutCompletes ==
    \A t \in Putters : (cache.lock = t) ~> (cache.lock = 0)

====
